---- MODULE Spec2Model ----
(***************************************************************************)
(* A model of the udp2raw process supervisor (app/process_manager.py) and  *)
(* of the way app/main.py drives it.  One control thread executes the API  *)
(* calls start_tunnels, stop_all, get_status, get_logs and clear_logs step *)
(* by step; every spawned child has its own output pump thread; children   *)
(* write output, react to signals and exit on their own.                   *)
(***************************************************************************)
EXTENDS Integers, Sequences, FiniteSets, TLC

(***************************************************************************)
(* Bounds of the model.                                                    *)
(***************************************************************************)
\* API calls made after the boot; start_tunnels calls among them where the
\* specification allows them
MaxCalls == 2
MaxStarts == 1
\* child processes spawned in one behaviour
MaxProcs == 2
\* injected environment faults (file errors, missing binary, exec errors,
\* iptables errors) in one behaviour
MaxFaults == 1
\* instances in each of the two lists of a configuration snapshot
MaxInst == 1
\* chunks of output the children write in one behaviour
MaxOutput == 1
\* chunks the children write when the order of their lines is studied
MaxEmit == 2
\* rules of the INPUT chain when the Firewall Reconciler is studied on its own
MaxRules == 3
\* free places in the log buffer when its capacity is studied
MaxRoom == 1
\* records in the log when get_logs is studied on its own
MaxLines == 4

(***************************************************************************)
(* Program constants.                                                      *)
(***************************************************************************)
max_iterations == 100
maxlen == 500

Pids == 1..MaxProcs
Threads == {"main"}
\* the threads of the web server when requests are served side by side
RaceThreads == {"main", "req"}

(***************************************************************************)
(* Python helpers.                                                         *)
(***************************************************************************)
\* dict.get(key, default)
Get(d, k, default) == IF k \in DOMAIN d THEN d[k] ELSE default

\* the insertion-ordered dict self.processes: a sequence of [key, pid]
DictKeys(d) == [i \in 1..Len(d) |-> d[i].key]
DictHas(d, k) == \E i \in 1..Len(d) : d[i].key = k
DictGet(d, k) == (CHOOSE i \in 1..Len(d) : d[i].key = k)
DictSet(d, k, p) ==
    IF DictHas(d, k)
    THEN [i \in 1..Len(d) |-> IF d[i].key = k THEN [key |-> k, pid |-> p] ELSE d[i]]
    ELSE Append(d, [key |-> k, pid |-> p])

RECURSIVE SeqToSet(_)
SeqToSet(s) == IF s = <<>> THEN {} ELSE {Head(s)} \cup SeqToSet(Tail(s))

\* s[-n:] of a Python list
LastN(s, n) ==
    IF n = 0 THEN s
    ELSE IF n > 0 THEN SubSeq(s, (IF Len(s) > n THEN Len(s) - n + 1 ELSE 1), Len(s))
    ELSE SubSeq(s, (IF Len(s) > -n THEN -n + 1 ELSE Len(s) + 1), Len(s))

\* str.strip() on a string held as a sequence of one-character strings
IsSpace(c) == c \in {" ", "\n"}
RECURSIVE LStrip(_)
LStrip(s) == IF s # <<>> /\ IsSpace(Head(s)) THEN LStrip(Tail(s)) ELSE s
RECURSIVE RStrip(_)
RStrip(s) ==
    IF s # <<>> /\ IsSpace(s[Len(s)]) THEN RStrip(SubSeq(s, 1, Len(s) - 1)) ELSE s
Strip(s) == RStrip(LStrip(s))

\* ''.join(chars)
RECURSIVE Join(_)
Join(s) == IF s = <<>> THEN "" ELSE Head(s) \o Join(Tail(s))

(***************************************************************************)
(* shlex.split on the characters the model uses: blanks separate tokens,   *)
(* double quotes group, an unclosed quote raises ValueError (ok = FALSE).  *)
(***************************************************************************)
RECURSIVE ShlexScan(_, _, _, _, _)
ShlexScan(s, cur, has, inq, acc) ==
    IF s = <<>>
    THEN IF inq THEN [ok |-> FALSE, toks |-> <<>>]
         ELSE [ok |-> TRUE, toks |-> IF has THEN Append(acc, cur) ELSE acc]
    ELSE LET c == Head(s) IN
         IF inq
         THEN IF c = "\"" THEN ShlexScan(Tail(s), cur, TRUE, FALSE, acc)
              ELSE ShlexScan(Tail(s), cur \o c, TRUE, TRUE, acc)
         ELSE IF IsSpace(c)
              THEN ShlexScan(Tail(s), "", FALSE, FALSE,
                             IF has THEN Append(acc, cur) ELSE acc)
              ELSE IF c = "\"" THEN ShlexScan(Tail(s), cur, TRUE, TRUE, acc)
              ELSE ShlexScan(Tail(s), cur \o c, TRUE, FALSE, acc)
ShlexSplit(s) == ShlexScan(s, "", FALSE, FALSE, <<>>)

\* the tokens of extra_args: a list of fragments (blank ones skipped, each
\* stripped and split on its own) or one string
RECURSIVE ExtraList(_)
ExtraList(frags) ==
    IF frags = <<>> THEN [ok |-> TRUE, toks |-> <<>>]
    ELSE LET f == Strip(Head(frags))
             one == IF f # <<>> THEN ShlexSplit(f) ELSE [ok |-> TRUE, toks |-> <<>>]
             rest == ExtraList(Tail(frags))
         IN IF one.ok /\ rest.ok THEN [ok |-> TRUE, toks |-> one.toks \o rest.toks]
            ELSE [ok |-> FALSE, toks |-> <<>>]
ExtraTokens(conf) ==
    IF "extra_args" \notin DOMAIN conf \/ conf.extra_args.v = <<>>
    THEN [ok |-> TRUE, toks |-> <<>>]
    ELSE IF conf.extra_args.kind = "list" THEN ExtraList(conf.extra_args.v)
    ELSE ShlexSplit(conf.extra_args.v)

(***************************************************************************)
(* The argument vector of _start_instance.  A configuration object is a    *)
(* function from field names to values; a field holding JSON null is named *)
(* in the field "null".  ok = FALSE: tokenizing extra_args raised.         *)
(***************************************************************************)
bin_path == "/usr/local/bin/udp2raw"

IsNone(conf, k) == k \in Get(conf, "null", {})
Present(conf, k) == k \in DOMAIN conf /\ ~IsNone(conf, k)

LevelMap(level) ==
    CASE level = "fatal" -> 1
      [] level = "error" -> 2
      [] level = "warn" -> 3
      [] level = "info" -> 4
      [] level = "debug" -> 5
      [] level = "trace" -> 6
      [] OTHER -> 4

\* the endpoint pairs joined with '=' into one token each
EndpointArgsJoined(mode, conf) ==
    IF mode = "server"
    THEN << "-s",
            "-l=" \o Get(conf, "listen_ip", "0.0.0.0") \o ":"
                    \o ToString(Get(conf, "listen_port", 29900)),
            "-r=" \o Get(conf, "forward_ip", "127.0.0.1") \o ":"
                    \o ToString(Get(conf, "forward_port", 51820)) >>
    ELSE << "-c",
            "-l=" \o Get(conf, "local_ip", "127.0.0.1") \o ":"
                    \o ToString(Get(conf, "local_port", 3333)),
            "-r=" \o Get(conf, "server_ip", "127.0.0.1") \o ":"
                    \o ToString(Get(conf, "server_port", 29900)) >>

EndpointArgs(mode, conf) ==
    IF mode = "server"
    THEN << "-s",
            "-l", Get(conf, "listen_ip", "0.0.0.0") \o ":"
                    \o ToString(Get(conf, "listen_port", 29900)),
            "-r", Get(conf, "forward_ip", "127.0.0.1") \o ":"
                    \o ToString(Get(conf, "forward_port", 51820)) >>
    ELSE << "-c",
            "-l", Get(conf, "local_ip", "127.0.0.1") \o ":"
                    \o ToString(Get(conf, "local_port", 3333)),
            "-r", Get(conf, "server_ip", "127.0.0.1") \o ":"
                    \o ToString(Get(conf, "server_port", 29900)) >>

ModeArgs(conf) ==
    << "-k", Get(conf, "password", "secret"),
       "--raw-mode", Get(conf, "raw_mode", "faketcp"),
       "--cipher-mode", Get(conf, "cipher_mode", "xor"),
       "--auth-mode", Get(conf, "auth_mode", "simple") >>
    \o (IF Get(conf, "auto_iptables", TRUE) THEN <<"-a">> ELSE <<>>)

\* the client-only parameters without the test of the role
ClientArgsAnyRole(mode, conf) ==
       (IF Present(conf, "source_ip") /\ conf.source_ip # ""
        THEN <<"--source-ip", conf.source_ip>> ELSE <<>>)
    \o (IF Present(conf, "source_port") /\ conf.source_port # 0
        THEN <<"--source-port", ToString(conf.source_port)>> ELSE <<>>)
    \o (IF ~IsNone(conf, "seq_mode")
        THEN <<"--seq-mode", ToString(Get(conf, "seq_mode", 3))>> ELSE <<>>)

ClientArgs(mode, conf) ==
    IF mode # "client" THEN <<>>
    ELSE (IF Present(conf, "source_ip") /\ conf.source_ip # ""
          THEN <<"--source-ip", conf.source_ip>> ELSE <<>>)
      \o (IF Present(conf, "source_port") /\ conf.source_port # 0
          THEN <<"--source-port", ToString(conf.source_port)>> ELSE <<>>)
      \o (IF ~IsNone(conf, "seq_mode")
          THEN <<"--seq-mode", ToString(Get(conf, "seq_mode", 3))>> ELSE <<>>)

\* the advanced parameters with a default device
AdvancedArgsDefaults(conf) ==
       (IF Present(conf, "lower_level") /\ conf.lower_level # ""
        THEN <<"--lower-level", conf.lower_level>> ELSE <<>>)
    \o <<"--dev", Get(conf, "dev", "eth0")>>
    \o (IF Get(conf, "disable_anti_replay", FALSE)
        THEN <<"--disable-anti-replay">> ELSE <<>>)
    \o (IF Get(conf, "disable_bpf", FALSE) THEN <<"--disable-bpf">> ELSE <<>>)

AdvancedArgs(conf) ==
       (IF Present(conf, "lower_level") /\ conf.lower_level # ""
        THEN <<"--lower-level", conf.lower_level>> ELSE <<>>)
    \o (IF Present(conf, "dev") /\ conf.dev # ""
        THEN <<"--dev", conf.dev>> ELSE <<>>)
    \o (IF Get(conf, "disable_anti_replay", FALSE)
        THEN <<"--disable-anti-replay">> ELSE <<>>)
    \o (IF Get(conf, "disable_bpf", FALSE) THEN <<"--disable-bpf">> ELSE <<>>)

GlobalArgs(gconf) ==
       (IF Get(gconf, "wait_lock", TRUE) THEN <<"--wait-lock">> ELSE <<>>)
    \o <<"--log-level", ToString(LevelMap(Get(gconf, "log_level", "info")))>>

BuildCmd(mode, conf, gconf) ==
    LET extra == ExtraTokens(conf) IN
    [ok  |-> extra.ok,
     cmd |-> <<bin_path>> \o EndpointArgs(mode, conf) \o ModeArgs(conf)
               \o ClientArgs(mode, conf) \o AdvancedArgs(conf)
               \o GlobalArgs(gconf) \o extra.toks]

\* ' '.join(cmd)
RECURSIVE JoinSp(_)
JoinSp(s) ==
    IF s = <<>> THEN ""
    ELSE IF Len(s) = 1 THEN s[1] ELSE s[1] \o " " \o JoinSp(Tail(s))

\* f"{mode}_{index}", index counted from 0
Key(mode, i) == mode \o "_" \o ToString(i - 1)
Alias(mode, conf, i) == Get(conf, "alias", Key(mode, i))

(***************************************************************************)
(* Log Sink helpers.  A log line f"[{timestamp}] [{alias}] {message}" is a *)
(* record; id = <<writer, n>> tells two equal texts apart: it names the n-th *)
(* line of a writer (0: the control thread, p: the pump of child p).        *)
(***************************************************************************)
LogLine(alias, message, id) == [alias |-> alias, msg |-> message, id |-> id]
NoLine == LogLine("", "", <<0, 0>>)

\* appendleft instead of append: the newest record goes in front
DequePrepend(buf, line) == <<line>> \o buf

\* a plain list instead of the deque: nothing is ever evicted
ListAppend(buf, line) == Append(buf, line)

\* deque(maxlen=500).append
DequeAppend(buf, line) ==
    IF Len(buf) >= maxlen THEN Append(Tail(buf), line) ELSE Append(buf, line)

\* the file opened with 'w' instead of 'a'
FileOverwrite(file, line) == <<line>>

\* open(path, 'a'); f.write(log_line + '\n')
FileAppend(file, line) == Append(file, line)

\* get_logs, its first part: all_lines[-lines:] of the file
GetLogsFile(file, n) == LastN(file, n)

\* get_logs, its second part: log_list[-lines:] if len(log_list) > lines
\* else log_list
GetLogsBuffer(buf, n) == IF Len(buf) > n THEN LastN(buf, n) ELSE buf

(***************************************************************************)
(* Firewall Reconciler helpers.  The INPUT chain is a sequence of rules; a *)
(* rule is 0 (a rule of somebody else) or the pid of the child whose       *)
(* udp2rawDwrW chain it jumps to.  Chains are named by that pid.           *)
(***************************************************************************)
FirstTagged(rules) ==
    IF \E i \in 1..Len(rules) : rules[i] # 0
    THEN CHOOSE i \in 1..Len(rules) :
            rules[i] # 0 /\ \A j \in 1..(i - 1) : rules[j] = 0
    ELSE 0

\* the deletion off by one line: the rule after the one asked for goes
RemoveAfter(s, i) == SubSeq(s, 1, i) \o SubSeq(s, i + 2, Len(s))

RemoveAt(s, i) == SubSeq(s, 1, i - 1) \o SubSeq(s, i + 1, Len(s))

\* iptables -X refuses a chain that a rule of INPUT still jumps to
Referenced(rules, chain) == \E i \in 1..Len(rules) : rules[i] = chain

CleanupMessage(deleted_rules, deleted_chains) ==
    "Cleaned " \o ToString(deleted_rules) \o " rules, "
        \o ToString(deleted_chains) \o " chains"

(***************************************************************************)
(* Configuration snapshots the API hands to start_tunnels.                 *)
(***************************************************************************)
\* an extra_args fragment with an unclosed quote, and a well-formed one
BadFragment == <<"\"", "x">>
GoodFragment == <<"-", "x">>

Instances ==
    { [enabled |-> TRUE], [enabled |-> FALSE],
      [enabled |-> TRUE, extra_args |-> [kind |-> "list", v |-> <<BadFragment>>]] }

Configs ==
    { [global |-> [enabled |-> g], servers |-> s, clients |-> c] :
        g \in BOOLEAN,
        s \in [1..MaxInst -> Instances],
        c \in [1..MaxInst -> Instances] }

\* what one write() of a child puts into the pipe: a line, or a part of one
Chunks == { <<"a", "\n">>, <<"b">> }

\* arguments of get_logs
LinesArgs == {1, 50}

\* the calls of the API besides start_tunnels
Operations == {"stop", "status", "logs", "clear"}

(***************************************************************************)
(* State.                                                                  *)
(***************************************************************************)
VARIABLES
    processes,    \* self.processes
    log_buffer,   \* self.log_buffer
    log_file,     \* the lines of the file at self.log_file_path
    log_threads,  \* self.log_threads (a pump thread is named by its child)
    stop_event,   \* self._stop_event
    procs,        \* the child processes as the operating system sees them
    pump,         \* the _log_reader thread of each child
    ctl,          \* the control thread: position and locals of the running call
    fw_input,     \* the rules of the INPUT chain
    fw_chains,    \* the udp2rawDwrW chains that exist
    calls,        \* API calls made so far
    starts,       \* start_tunnels calls among them
    faults,       \* environment faults injected so far
    nextPid,      \* the next process id
    outputs,      \* chunks of output written so far
    lim,          \* the bounds of this behaviour; io: the faults may be
                  \* failures of the log file; codes: the exit statuses of
                  \* the children; ops: the calls that are made
    nextId,       \* for each writer, the number of its next log line
    hist          \* history: the records formed so far, the records the sink
                  \* held when clear_logs last began, the clear_logs calls so
                  \* far, the operation of the call that ended last

vars == << processes, log_buffer, log_file, log_threads, stop_event, procs, pump,
           ctl, fw_input, fw_chains, calls, starts, faults, nextPid, outputs, lim, nextId, hist >>

\* term, kill: SIGTERM, SIGKILL has reached the child while it was running
NoProc ==
    [st |-> "unborn", code |-> 0, term |-> FALSE, kill |-> FALSE,
     pipe |-> <<>>, fw |-> FALSE,
     \* history: everything the child has written
     out |-> <<>>]

NoPump ==
    [pc |-> "none", alias |-> "", buffer |-> <<>>, todo |-> <<>>,
     rec |-> NoLine, after |-> ""]

\* the locals of the control thread between two calls
Idle ==
    [pc |-> "idle", op |-> "none", cfg |-> [global |-> [enabled |-> FALSE]],
     n |-> 0, keys |-> <<>>, ki |-> 0, ji |-> 0, mode |-> "", idx |-> 0,
     pid |-> 0, rec |-> NoLine, after |-> "", res |-> <<>>,
     \* the locals of _cleanup_iptables: iter, the turns of its loop so far
     \* flushed: iptables -F has emptied the chain of this turn
     iter |-> 0, rule_num |-> 0, deleted_rules |-> 0, chains |-> {},
     deleted_chains |-> 0, chain |-> 0, flushed |-> FALSE,
     \* the iterator of get_status over self.processes.items(): att, it is
     \* over the dict self.processes is bound to, else over d, a dict that
     \* has been replaced since; used, the size when it was made; pos, its place
     it |-> [d |-> <<>>, att |-> FALSE, used |-> 0, pos |-> 0],
     \* the iterator of stop_all over self.log_threads, at place ji: att, it
     \* is over the list self.log_threads is bound to, else over l, a list
     \* that has been replaced since
     join |-> [l |-> <<>>, att |-> FALSE],
     \* history of the call, for the properties
     tracked |-> {}, signals |-> <<>>, cleared |-> FALSE, reconciled |-> 0,
     joined |-> FALSE, attempted |-> {}, spawned |-> {}, written |-> <<>>,
     fwfault |-> FALSE]

\* a call enters stop_all
EnterStop(c, op, cfg) ==
    [c EXCEPT !.pc = "stop_set", !.op = op, !.cfg = cfg]

\* ProcessManager() followed by the start_tunnels(config) main.py makes on boot
InitWith(limits, boots) ==
    /\ lim = limits
    /\ processes = <<>>
    /\ log_buffer = <<>>
    /\ log_file = << LogLine("System", "Process Manager initialized", <<0, 0>>) >>
    /\ log_threads = <<>>
    /\ stop_event = FALSE
    /\ procs = [p \in Pids |-> NoProc]
    /\ pump = [p \in Pids |-> NoPump]
    /\ \E cfg \in boots : ctl = [t \in Threads |-> EnterStop(Idle, "start", cfg)]
    /\ fw_input = <<0>>
    /\ fw_chains = {}
    /\ calls = 0
    /\ starts = 0
    /\ faults = 0
    /\ nextPid = 1
    /\ outputs = 0
    /\ nextId = [w \in {0} \cup Pids |-> 1]
    /\ hist = [made |-> {LogLine("System", "Process Manager initialized", <<0, 0>>)},
               old |-> {}, clears |-> 0, last |-> "none"]


(***************************************************************************)
(* _add_log as the control thread runs it: the line is formed, appended to *)
(* the buffer under log_lock, then written to the file.                    *)
(***************************************************************************)
\* the call goes on (locals c) by logging message under alias, then to after
AddLog(t, c, alias, message, after) ==
    /\ ctl' = [ctl EXCEPT ![t] =
                 [c EXCEPT !.rec = LogLine(alias, message, <<0, nextId[0]>>),
                           !.after = after, !.pc = "log_buf"]]
    /\ nextId' = [nextId EXCEPT ![0] = @ + 1]
    /\ hist' = [hist EXCEPT !.made = @ \cup {LogLine(alias, message, <<0, nextId[0]>>)}]

Goto(t, c, pc) == ctl' = [ctl EXCEPT ![t] = [c EXCEPT !.pc = pc]]

LogBuf(t) ==
    /\ ctl[t].pc = "log_buf"
    /\ log_buffer' = DequeAppend(log_buffer, ctl[t].rec)
    /\ Goto(t, [ctl[t] EXCEPT !.written = Append(@, ctl[t].rec)], "log_file")
    /\ UNCHANGED << processes, log_file, log_threads, stop_event, procs, pump,
                    fw_input, fw_chains, calls, starts, faults, nextPid, outputs, lim, nextId, hist >>

LogFile(t) ==
    /\ ctl[t].pc = "log_file"
    /\ \/ /\ log_file' = FileAppend(log_file, ctl[t].rec)
          /\ UNCHANGED faults
       \/ \* open or write raises: caught, reported to the Python logger only
          /\ lim.io /\ faults < lim.faults
          /\ faults' = faults + 1
          /\ UNCHANGED log_file
    /\ Goto(t, [ctl[t] EXCEPT !.rec = NoLine, !.after = ""], ctl[t].after)
    /\ UNCHANGED << processes, log_buffer, log_threads, stop_event, procs, pump,
                    fw_input, fw_chains, calls, starts, nextPid, outputs, lim, nextId, hist >>

(***************************************************************************)
(* stop_all                                                                *)
(***************************************************************************)
StopSet(t) ==
    /\ ctl[t].pc = "stop_set"
    /\ stop_event' = TRUE
    /\ Goto(t, ctl[t], "stop_keys")
    /\ UNCHANGED << processes, log_buffer, log_file, log_threads, procs, pump,
                    fw_input, fw_chains, calls, starts, faults, nextPid, outputs, lim, nextId, hist >>

StopKeys(t) ==
    /\ ctl[t].pc = "stop_keys"
    /\ Goto(t, [ctl[t] EXCEPT !.keys = DictKeys(processes), !.ki = 1,
                              !.tracked = {processes[i].pid : i \in 1..Len(processes)}],
            "stop_poll")
    /\ UNCHANGED << processes, log_buffer, log_file, log_threads, stop_event, procs,
                    pump, fw_input, fw_chains, calls, starts, faults, nextPid, outputs, lim, nextId, hist >>

\* stop_all without its terminate, wait and kill: every key is passed over
StopPollSkip(t) ==
    /\ ctl[t].pc = "stop_poll"
    /\ IF ctl[t].ki > Len(ctl[t].keys)
       THEN Goto(t, ctl[t], "stop_clear")
       ELSE Goto(t, [ctl[t] EXCEPT !.ki = @ + 1], "stop_poll")
    /\ UNCHANGED << processes, log_buffer, log_file, log_threads, stop_event, procs, pump,
                    fw_input, fw_chains, calls, starts, faults, nextPid, outputs, lim, nextId, hist >>

\* proc = self.processes[key]; proc.poll() is None: on to the terminate;
\* otherwise the next key
StopPoll(t) ==
    /\ ctl[t].pc = "stop_poll"
    /\ IF ctl[t].ki > Len(ctl[t].keys)
       THEN Goto(t, ctl[t], "stop_clear")
       ELSE IF ~DictHas(processes, ctl[t].keys[ctl[t].ki])
       THEN \* self.processes[key] raises KeyError: another thread has replaced the dict
            Goto(t, ctl[t], "raised")
       ELSE LET p == processes[DictGet(processes, ctl[t].keys[ctl[t].ki])].pid IN
            IF procs[p].st = "running"
            THEN Goto(t, [ctl[t] EXCEPT !.pid = p], "stop_term")
            ELSE Goto(t, [ctl[t] EXCEPT !.ki = @ + 1], "stop_poll")
    /\ UNCHANGED << processes, log_buffer, log_file, log_threads, stop_event, procs, pump,
                    fw_input, fw_chains, calls, starts, faults, nextPid, outputs, lim, nextId, hist >>

\* proc.terminate(): the request reaches the child unless it has exited since
\* the poll
StopTerm(t) ==
    /\ ctl[t].pc = "stop_term"
    /\ LET p == ctl[t].pid IN
       /\ procs' = IF procs[p].st = "running"
                   THEN [procs EXCEPT ![p].term = TRUE] ELSE procs
       /\ Goto(t, [ctl[t] EXCEPT !.signals = Append(@, <<p, "TERM">>)], "stop_wait")
    /\ UNCHANGED << processes, log_buffer, log_file, log_threads, stop_event, pump,
                    fw_input, fw_chains, calls, starts, faults, nextPid, outputs, lim, nextId, hist >>

\* proc.wait() with no timeout: the call waits until the child has exited
StopWaitForever(t) ==
    /\ ctl[t].pc = "stop_wait"
    /\ procs[ctl[t].pid].st = "exited"
    /\ Goto(t, [ctl[t] EXCEPT !.ki = @ + 1], "stop_poll")
    /\ UNCHANGED << processes, log_buffer, log_file, log_threads, stop_event, procs, pump,
                    fw_input, fw_chains, calls, starts, faults, nextPid, outputs, lim, nextId, hist >>

\* on to the kill without regard to what the grace wait found
StopWaitHasty(t) ==
    /\ ctl[t].pc = "stop_wait"
    /\ Goto(t, ctl[t], "stop_kill")
    /\ UNCHANGED << processes, log_buffer, log_file, log_threads, stop_event, procs, pump,
                    fw_input, fw_chains, calls, starts, faults, nextPid, outputs, lim, nextId, hist >>

\* proc.wait(timeout=3): the child has exited, or TimeoutExpired is caught
StopWait(t) ==
    /\ ctl[t].pc = "stop_wait"
    /\ LET p == ctl[t].pid IN
       \/ /\ procs[p].st = "exited"
          /\ Goto(t, [ctl[t] EXCEPT !.ki = @ + 1], "stop_poll")
       \/ /\ procs[p].st = "running"
          /\ Goto(t, ctl[t], "stop_kill")
    /\ UNCHANGED << processes, log_buffer, log_file, log_threads, stop_event, procs, pump,
                    fw_input, fw_chains, calls, starts, faults, nextPid, outputs, lim, nextId, hist >>

\* proc.kill() in the except branch: the child dies of it unless it has
\* exited since the wait timed out
StopKill(t) ==
    /\ ctl[t].pc = "stop_kill"
    /\ LET p == ctl[t].pid IN
       /\ procs' = IF procs[p].st = "running"
                   THEN [procs EXCEPT ![p].kill = TRUE] ELSE procs
       /\ Goto(t, [ctl[t] EXCEPT !.signals = Append(@, <<p, "KILL">>)], "stop_killwait")
    /\ UNCHANGED << processes, log_buffer, log_file, log_threads, stop_event, pump,
                    fw_input, fw_chains, calls, starts, faults, nextPid, outputs, lim, nextId, hist >>

\* proc.wait(timeout=1) after the kill: nothing catches its TimeoutExpired
StopKillWait(t) ==
    /\ ctl[t].pc = "stop_killwait"
    /\ LET p == ctl[t].pid IN
       \/ /\ procs[p].st = "exited"
          /\ Goto(t, [ctl[t] EXCEPT !.ki = @ + 1], "stop_poll")
       \/ /\ procs[p].st = "running"
          /\ Goto(t, ctl[t], "raised")
    /\ UNCHANGED << processes, log_buffer, log_file, log_threads, stop_event, procs,
                    pump, fw_input, fw_chains, calls, starts, faults, nextPid, outputs, lim, nextId, hist >>

\* self.processes = {}: a new dict is bound; an iterator another thread has
\* over the old dict keeps that dict
StopClear(t) ==
    /\ ctl[t].pc = "stop_clear"
    /\ processes' = <<>>
    /\ ctl' = [u \in DOMAIN ctl |->
                 IF u = t THEN [ctl[t] EXCEPT !.cleared = TRUE, !.pc = "stop_fw"]
                 ELSE IF ctl[u].it.att
                      THEN [ctl[u] EXCEPT !.it.att = FALSE, !.it.d = processes]
                      ELSE ctl[u]]
    /\ UNCHANGED << log_buffer, log_file, log_threads, stop_event, procs, pump,
                    fw_input, fw_chains, calls, starts, faults, nextPid, outputs, lim, nextId, hist >>

(***************************************************************************)
(* _cleanup_iptables: every iptables command it runs is a step of its own. *)
(***************************************************************************)
\* _cleanup_iptables without its outer try: the exception leaves stop_all
FwExceptOut(t, c) ==
    /\ Goto(t, [c EXCEPT !.fwfault = TRUE], "raised")
    /\ UNCHANGED << nextId, hist >>

\* except Exception as e: the warning record, and stop_all goes on
FwExcept(t, c) ==
    AddLog(t, [c EXCEPT !.fwfault = TRUE, !.ji = 0,
                        !.iter = 0, !.rule_num = 0, !.deleted_rules = 0,
                        !.chains = {}, !.deleted_chains = 0,
                        !.chain = 0, !.flushed = FALSE],
           "System", "iptables cleanup warning: error", "stop_join")

\* the head of the loop of step 1: iptables -L INPUT -n --line-numbers and
\* the search for the first line that carries the tag
FwList(t) ==
    /\ ctl[t].pc = "stop_fw"
    /\ LET c == [ctl[t] EXCEPT !.reconciled = IF ctl[t].iter = 0 THEN @ + 1 ELSE @] IN
       \/ /\ UNCHANGED << faults, nextId, hist >>
          /\ IF FirstTagged(fw_input) = 0
             THEN Goto(t, c, "fw_chains")
             ELSE Goto(t, [c EXCEPT !.rule_num = FirstTagged(fw_input)], "fw_delete")
       \/ \* iptables returns non-zero: no output, rule_num stays None
          /\ faults < lim.faults
          /\ faults' = faults + 1
          /\ Goto(t, [c EXCEPT !.fwfault = TRUE], "fw_chains")
          /\ UNCHANGED << nextId, hist >>
       \/ \* the command raises (iptables missing, TimeoutExpired)
          /\ faults < lim.faults
          /\ faults' = faults + 1
          /\ FwExcept(t, c)
    /\ UNCHANGED << processes, log_buffer, log_file, log_threads, stop_event, procs,
                    pump, fw_input, fw_chains, calls, starts, nextPid, outputs, lim >>

\* iptables -D INPUT rule_num: the rule that has this number now is deleted
FwDelete(t) ==
    /\ ctl[t].pc = "fw_delete"
    /\ LET c == ctl[t] IN
       \/ /\ c.rule_num <= Len(fw_input)
          /\ fw_input' = RemoveAt(fw_input, c.rule_num)
          /\ Goto(t, [c EXCEPT !.deleted_rules = @ + 1, !.iter = @ + 1, !.rule_num = 0],
                  IF c.iter + 1 >= max_iterations THEN "fw_chains" ELSE "stop_fw")
          /\ UNCHANGED << faults, nextId, hist >>
       \/ \* returncode # 0, no rule has this number any more: break
          /\ c.rule_num > Len(fw_input)
          /\ Goto(t, [c EXCEPT !.rule_num = 0], "fw_chains")
          /\ UNCHANGED << fw_input, faults, nextId, hist >>
       \/ \* returncode # 0, iptables fails: break
          /\ faults < lim.faults
          /\ faults' = faults + 1
          /\ Goto(t, [c EXCEPT !.rule_num = 0, !.fwfault = TRUE], "fw_chains")
          /\ UNCHANGED << fw_input, nextId, hist >>
       \/ \* the command raises
          /\ faults < lim.faults
          /\ faults' = faults + 1
          /\ FwExcept(t, c)
          /\ UNCHANGED fw_input
    /\ UNCHANGED << processes, log_buffer, log_file, log_threads, stop_event, procs,
                    pump, fw_chains, calls, starts, nextPid, outputs, lim >>

\* step 2: iptables -L -n and the names of the udp2rawDwrW chains in it
FwChains(t) ==
    /\ ctl[t].pc = "fw_chains"
    /\ LET c == ctl[t] IN
       \/ /\ Goto(t, [c EXCEPT !.chains = fw_chains], "fw_chain")
          /\ UNCHANGED << faults, nextId, hist >>
       \/ \* iptables returns non-zero: no output, no chain is found
          /\ faults < lim.faults
          /\ faults' = faults + 1
          /\ Goto(t, [c EXCEPT !.chains = {}, !.fwfault = TRUE], "fw_chain")
          /\ UNCHANGED << nextId, hist >>
       \/ \* the command raises
          /\ faults < lim.faults
          /\ faults' = faults + 1
          /\ FwExcept(t, c)
    /\ UNCHANGED << processes, log_buffer, log_file, log_threads, stop_event, procs,
                    pump, fw_input, fw_chains, calls, starts, nextPid, outputs, lim >>

\* for chain in chains (a set made a list, in no fixed order): iptables -F
\* of the next chain; after the last chain the record of what was cleaned.
\* The return code of -F is not looked at.
FwChain(t) ==
    /\ ctl[t].pc = "fw_chain"
    /\ LET c == ctl[t] IN
       IF c.chains = {}
       THEN LET d == [c EXCEPT !.ji = 0, !.iter = 0, !.rule_num = 0, !.deleted_rules = 0,
                               !.chains = {}, !.deleted_chains = 0]
            IN /\ IF c.deleted_rules > 0 \/ c.deleted_chains > 0
                  THEN AddLog(t, d, "System",
                              CleanupMessage(c.deleted_rules, c.deleted_chains), "stop_join")
                  ELSE Goto(t, d, "stop_join") /\ UNCHANGED << nextId, hist >>
               /\ UNCHANGED faults
       ELSE \E chain \in c.chains :
              LET turn == [c EXCEPT !.chains = @ \ {chain}, !.chain = chain] IN
              \/ \* -F returns 0: the chain is empty now
                 /\ Goto(t, [turn EXCEPT !.flushed = TRUE], "fw_xchain")
                 /\ UNCHANGED << faults, nextId, hist >>
              \/ \* -F returns non-zero: the chain keeps its rules
                 /\ faults < lim.faults
                 /\ faults' = faults + 1
                 /\ Goto(t, [turn EXCEPT !.flushed = FALSE, !.fwfault = TRUE], "fw_xchain")
                 /\ UNCHANGED << nextId, hist >>
              \/ \* -F raises (the inner except): on to the next chain
                 /\ faults < lim.faults
                 /\ faults' = faults + 1
                 /\ Goto(t, [turn EXCEPT !.chain = 0, !.fwfault = TRUE], "fw_chain")
                 /\ UNCHANGED << nextId, hist >>
    /\ UNCHANGED << processes, log_buffer, log_file, log_threads, stop_event, procs,
                    pump, fw_input, fw_chains, calls, starts, nextPid, outputs, lim >>

\* iptables -X of the chain of this turn, and the count of the chains deleted
FwChainX(t) ==
    /\ ctl[t].pc = "fw_xchain"
    /\ LET c == ctl[t]
           chain == c.chain
           rest == [c EXCEPT !.chain = 0, !.flushed = FALSE]
       IN \/ \* -X returns 0: the chain exists, is empty and nothing jumps to it
             /\ chain \in fw_chains /\ c.flushed /\ ~Referenced(fw_input, chain)
             /\ fw_chains' = fw_chains \ {chain}
             /\ Goto(t, [rest EXCEPT !.deleted_chains = @ + 1], "fw_chain")
             /\ UNCHANGED faults
          \/ \* -X returns non-zero: the chain is in use, not empty, or gone
             /\ chain \notin fw_chains \/ ~c.flushed \/ Referenced(fw_input, chain)
             /\ Goto(t, rest, "fw_chain")
             /\ UNCHANGED << fw_chains, faults >>
          \/ \* -X fails or raises (the inner except): the chain stays
             /\ faults < lim.faults
             /\ faults' = faults + 1
             /\ Goto(t, [rest EXCEPT !.fwfault = TRUE], "fw_chain")
             /\ UNCHANGED fw_chains
    /\ UNCHANGED << processes, log_buffer, log_file, log_threads, stop_event, procs,
                    pump, fw_input, calls, starts, nextPid, outputs, lim, nextId, hist >>

\* _cleanup_iptables
StopFw(t) == FwList(t) \/ FwDelete(t) \/ FwChains(t) \/ FwChain(t) \/ FwChainX(t)

\* the list the loop of stop_all (locals c) iterates: made at the first turn
\* (ji = 0) from the list self.log_threads is bound to; what another thread
\* appends to that list is seen, a list bound since is not
JoinList(c) == IF c.ji = 0 \/ c.join.att THEN log_threads ELSE c.join.l
JoinPlace(c) == IF c.ji = 0 THEN 1 ELSE c.ji

\* for t in self.log_threads: t.join(timeout=2)
StopJoin(t) ==
    /\ ctl[t].pc = "stop_join"
    /\ LET c == ctl[t]
           list == JoinList(c)
           i == JoinPlace(c)
       IN IF i > Len(list)
          THEN Goto(t, [c EXCEPT !.joined = TRUE, !.ji = 0,
                                 !.join = [l |-> <<>>, att |-> FALSE]], "stop_reset")
          ELSE LET turn == [c EXCEPT !.ji = i + 1,
                                     !.join.att = (c.ji = 0 \/ c.join.att)]
               IN \/ /\ pump[list[i]].pc = "done"
                     /\ Goto(t, turn, "stop_join")
                  \/ \* the timeout passes with the pump still running
                     /\ pump[list[i]].pc # "done"
                     /\ Goto(t, turn, "stop_join")
    /\ UNCHANGED << processes, log_buffer, log_file, log_threads, stop_event, procs, pump,
                    fw_input, fw_chains, calls, starts, faults, nextPid, outputs, lim, nextId, hist >>

\* self.log_threads = []: a new list is bound; the loop another thread has
\* over the old list keeps that list
StopReset(t) ==
    /\ ctl[t].pc = "stop_reset"
    /\ log_threads' = <<>>
    /\ ctl' = [u \in DOMAIN ctl |->
                 IF u = t THEN [ctl[t] EXCEPT !.pc = "stop_unset"]
                 ELSE IF ctl[u].join.att
                      THEN [ctl[u] EXCEPT !.join.att = FALSE, !.join.l = log_threads]
                      ELSE ctl[u]]
    /\ UNCHANGED << processes, log_buffer, log_file, stop_event, procs, pump,
                    fw_input, fw_chains, calls, starts, faults, nextPid, outputs, lim, nextId, hist >>

\* self._stop_event.clear(), and stop_all returns to its caller
StopUnset(t) ==
    /\ ctl[t].pc = "stop_unset"
    /\ stop_event' = FALSE
    /\ Goto(t, ctl[t], IF ctl[t].op = "start" THEN "start_apply" ELSE "done")
    /\ UNCHANGED << processes, log_buffer, log_file, log_threads, procs, pump,
                    fw_input, fw_chains, calls, starts, faults, nextPid, outputs, lim, nextId, hist >>

(***************************************************************************)
(* start_tunnels and _start_instance                                       *)
(***************************************************************************)
\* self._add_log("System", "Applying configuration...") after stop_all
StartApply(t) ==
    /\ ctl[t].pc = "start_apply"
    /\ AddLog(t, ctl[t], "System", "Applying configuration...", "start_check")
    /\ UNCHANGED << processes, log_buffer, log_file, log_threads, stop_event, procs,
                    pump, fw_input, fw_chains, calls, starts, faults, nextPid, outputs, lim >>

\* config.get('global', {}).get('enabled', False)
GlobalEnabled(cfg) == Get(Get(cfg, "global", <<>>), "enabled", FALSE)

\* start_tunnels without the return that follows the notice
StartCheckOn(t) ==
    /\ ctl[t].pc = "start_check"
    /\ LET c == [ctl[t] EXCEPT !.mode = "server", !.idx = 1] IN
       IF ~GlobalEnabled(ctl[t].cfg)
       THEN AddLog(t, c, "System", "Service is globally disabled", "start_loop")
       ELSE Goto(t, c, "start_loop") /\ UNCHANGED << nextId, hist >>
    /\ UNCHANGED << processes, log_buffer, log_file, log_threads, stop_event, procs,
                    pump, fw_input, fw_chains, calls, starts, faults, nextPid, outputs, lim >>

StartCheck(t) ==
    /\ ctl[t].pc = "start_check"
    /\ IF ~GlobalEnabled(ctl[t].cfg)
       THEN AddLog(t, ctl[t], "System", "Service is globally disabled", "done")
       ELSE /\ Goto(t, [ctl[t] EXCEPT !.mode = "server", !.idx = 1], "start_loop")
            /\ UNCHANGED << nextId, hist >>
    /\ UNCHANGED << processes, log_buffer, log_file, log_threads, stop_event, procs,
                    pump, fw_input, fw_chains, calls, starts, faults, nextPid, outputs, lim >>

\* config.get('servers', []) or config.get('clients', [])
InstanceList(cfg, mode) == Get(cfg, IF mode = "server" THEN "servers" ELSE "clients", <<>>)

\* the loops without their test of the enabled flag
ShouldStartAny(conf) == TRUE

\* if server.get('enabled'): the instance is started
ShouldStart(conf) == Get(conf, "enabled", FALSE)

\* the most children that start_tunnels(cfg) spawns
Spawns(cfg) ==
    IF ~GlobalEnabled(cfg) THEN 0
    ELSE Cardinality({<<mode, i>> \in {"server", "client"} \X (1..MaxInst) :
                        /\ i <= Len(InstanceList(cfg, mode))
                        /\ ShouldStart(InstanceList(cfg, mode)[i])})

\* the two for loops over the servers, then the clients
StartLoop(t) ==
    /\ ctl[t].pc = "start_loop"
    /\ LET list == InstanceList(ctl[t].cfg, ctl[t].mode) IN
       IF ctl[t].idx > Len(list)
       THEN IF ctl[t].mode = "server"
            THEN Goto(t, [ctl[t] EXCEPT !.mode = "client", !.idx = 1], "start_loop")
            ELSE Goto(t, ctl[t], "done")
       ELSE IF ShouldStart(list[ctl[t].idx])
            THEN Goto(t, [ctl[t] EXCEPT
                            !.attempted = @ \cup {Key(ctl[t].mode, ctl[t].idx)}],
                      "inst_build")
            ELSE Goto(t, [ctl[t] EXCEPT !.idx = @ + 1], "start_loop")
    /\ UNCHANGED << processes, log_buffer, log_file, log_threads, stop_event, procs,
                    pump, fw_input, fw_chains, calls, starts, faults, nextPid, outputs, lim, nextId, hist >>

\* _start_instance up to the "Starting:" line: the binary check, the argument
\* vector (shlex.split is outside every try)
InstBuild(t) ==
    /\ ctl[t].pc = "inst_build"
    /\ LET conf == InstanceList(ctl[t].cfg, ctl[t].mode)[ctl[t].idx]
           built == BuildCmd(ctl[t].mode, conf, Get(ctl[t].cfg, "global", <<>>))
           alias == Alias(ctl[t].mode, conf, ctl[t].idx)
       IN \/ \* os.path.exists(self.bin_path) is false
             /\ faults < lim.faults
             /\ faults' = faults + 1
             /\ AddLog(t, ctl[t], "System",
                       "udp2raw binary not found at " \o bin_path, "inst_next")
          \/ /\ ~built.ok
             /\ Goto(t, ctl[t], "raised")
             /\ UNCHANGED << faults, nextId, hist >>
          \/ /\ built.ok
             /\ AddLog(t, ctl[t], alias, "Starting: " \o JoinSp(built.cmd), "inst_popen")
             /\ UNCHANGED faults
    /\ UNCHANGED << processes, log_buffer, log_file, log_threads, stop_event, procs,
                    pump, fw_input, fw_chains, calls, starts, nextPid, outputs, lim >>

HasFlag(cmd, flag) == \E i \in 1..Len(cmd) : cmd[i] = flag

\* subprocess.Popen, or the except branch; a child run with -a has its chain
\* and its jump at the head of INPUT.  Call admits a start_tunnels only when
\* the children it may spawn fit into lim.procs
InstPopen(t) ==
    /\ ctl[t].pc = "inst_popen"
    /\ nextPid <= lim.procs
    /\ LET conf == InstanceList(ctl[t].cfg, ctl[t].mode)[ctl[t].idx]
           built == BuildCmd(ctl[t].mode, conf, Get(ctl[t].cfg, "global", <<>>))
           alias == Alias(ctl[t].mode, conf, ctl[t].idx)
           p == nextPid
       IN \/ /\ procs' = [procs EXCEPT ![p] = [NoProc EXCEPT !.st = "running",
                                                             !.fw = HasFlag(built.cmd, "-a")]]
             /\ fw_input' = IF HasFlag(built.cmd, "-a") THEN <<p>> \o fw_input
                             ELSE fw_input
             /\ fw_chains' = IF HasFlag(built.cmd, "-a") THEN fw_chains \cup {p}
                              ELSE fw_chains
             /\ nextPid' = nextPid + 1
             /\ Goto(t, [ctl[t] EXCEPT !.pid = p, !.spawned = @ \cup {p}], "inst_store")
             /\ UNCHANGED << faults, nextId, hist >>
          \/ \* Popen raises (the operating system refuses): the except branch
             /\ faults < lim.faults
             /\ faults' = faults + 1
             /\ AddLog(t, ctl[t], alias, "Failed to start: error", "inst_next")
             /\ UNCHANGED << procs, nextPid, fw_input, fw_chains >>
    /\ UNCHANGED << processes, log_buffer, log_file, log_threads, stop_event, pump,
                    calls, starts, outputs, lim >>

\* self.processes[key] = proc, in the dict self.processes is bound to now,
\* and the "Started with PID" record
InstStore(t) ==
    /\ ctl[t].pc = "inst_store"
    /\ LET conf == InstanceList(ctl[t].cfg, ctl[t].mode)[ctl[t].idx] IN
       /\ processes' = DictSet(processes, Key(ctl[t].mode, ctl[t].idx), ctl[t].pid)
       /\ AddLog(t, ctl[t], Alias(ctl[t].mode, conf, ctl[t].idx),
                 "Started with PID: " \o ToString(ctl[t].pid), "inst_thread")
    /\ UNCHANGED << log_buffer, log_file, log_threads, stop_event, procs, pump,
                    fw_input, fw_chains, calls, starts, faults, nextPid, outputs, lim >>

\* log_thread.start(): the pump runs from here on; or start() raises
\* (RuntimeError: can't start new thread) and the except branch logs it
InstThread(t) ==
    /\ ctl[t].pc = "inst_thread"
    /\ LET conf == InstanceList(ctl[t].cfg, ctl[t].mode)[ctl[t].idx]
           alias == Alias(ctl[t].mode, conf, ctl[t].idx)
       IN \/ /\ pump' = [pump EXCEPT ![ctl[t].pid] =
                           [NoPump EXCEPT !.pc = "check", !.alias = alias]]
             /\ Goto(t, ctl[t], "inst_append")
             /\ UNCHANGED << faults, nextId, hist >>
          \/ /\ faults < lim.faults
             /\ faults' = faults + 1
             /\ AddLog(t, ctl[t], alias, "Failed to start: error", "inst_next")
             /\ UNCHANGED pump
    /\ UNCHANGED << processes, log_buffer, log_file, log_threads, stop_event, procs,
                    fw_input, fw_chains, calls, starts, nextPid, outputs, lim >>

\* self.log_threads.append(log_thread)
InstAppend(t) ==
    /\ ctl[t].pc = "inst_append"
    /\ log_threads' = Append(log_threads, ctl[t].pid)
    /\ Goto(t, ctl[t], "inst_next")
    /\ UNCHANGED << processes, log_buffer, log_file, stop_event, procs, pump, fw_input,
                    fw_chains, calls, starts, faults, nextPid, outputs, lim, nextId, hist >>

\* _start_instance returns to the loop
InstNext(t) ==
    /\ ctl[t].pc = "inst_next"
    /\ Goto(t, [ctl[t] EXCEPT !.idx = @ + 1], "start_loop")
    /\ UNCHANGED << processes, log_buffer, log_file, log_threads, stop_event, procs,
                    pump, fw_input, fw_chains, calls, starts, faults, nextPid, outputs, lim, nextId, hist >>

(***************************************************************************)
(* get_status, get_logs, clear_logs                                        *)
(***************************************************************************)
\* a status that reports every table entry as running under its pid
StatusOfStale(table, ps) ==
    [i \in 1..Len(table) |->
        [id |-> table[i].key, running |-> TRUE, pid |-> table[i].pid]]

\* list(self.processes.items()) with proc.poll() is None for each entry
StatusOf(table, ps) ==
    [i \in 1..Len(table) |->
        LET is_running == ps[table[i].pid].st = "running" IN
        [id |-> table[i].key, running |-> is_running,
         pid |-> IF is_running THEN table[i].pid ELSE 0]]

\* get_status, one turn of its loop over self.processes.items() per step.
\* The iterator is made and yields its first item; the body polls the
\* process and appends the entry.
StatusBegin(t) ==
    /\ ctl[t].pc = "status_iter"
    /\ IF processes = <<>>
       THEN Goto(t, [ctl[t] EXCEPT !.res = <<>>], "done")
       ELSE Goto(t, [ctl[t] EXCEPT !.res = <<StatusOf(processes, procs)[1]>>,
                                   !.it = [d |-> <<>>, att |-> TRUE,
                                           used |-> Len(processes), pos |-> 2]],
                 "status_next")
    /\ UNCHANGED << processes, log_buffer, log_file, log_threads, stop_event, procs,
                    pump, fw_input, fw_chains, calls, starts, faults, nextPid, outputs, lim, nextId, hist >>

\* the next item: RuntimeError (dictionary changed size during iteration)
\* when the dict has another size than when the iterator was made
StatusNext(t) ==
    /\ ctl[t].pc = "status_next"
    /\ LET dict == IF ctl[t].it.att THEN processes ELSE ctl[t].it.d IN
       IF Len(dict) # ctl[t].it.used
       THEN Goto(t, [ctl[t] EXCEPT !.it = Idle.it], "raised")
       ELSE IF ctl[t].it.pos > Len(dict)
       THEN Goto(t, [ctl[t] EXCEPT !.it = Idle.it], "done")
       ELSE Goto(t, [ctl[t] EXCEPT !.res = Append(@, StatusOf(dict, procs)[ctl[t].it.pos]),
                                   !.it.pos = @ + 1],
                 "status_next")
    /\ UNCHANGED << processes, log_buffer, log_file, log_threads, stop_event, procs,
                    pump, fw_input, fw_chains, calls, starts, faults, nextPid, outputs, lim, nextId, hist >>

\* get_status
GetStatus(t) == StatusBegin(t) \/ StatusNext(t)

\* get_logs, lines 157-164: the file is read; its last lines are returned
\* when it holds any
GetLogsFileRead(t) ==
    /\ ctl[t].pc = "logs"
    /\ \/ /\ IF log_file # <<>>
             THEN Goto(t, [ctl[t] EXCEPT !.res = GetLogsFile(log_file, ctl[t].n)], "done")
             ELSE Goto(t, ctl[t], "logs_buf")
          /\ UNCHANGED faults
       \/ \* the file is missing or cannot be read
          /\ lim.io /\ faults < lim.faults
          /\ faults' = faults + 1
          /\ Goto(t, ctl[t], "logs_buf")
    /\ UNCHANGED << processes, log_buffer, log_file, log_threads, stop_event, procs,
                    pump, fw_input, fw_chains, calls, starts, nextPid, outputs, lim, nextId, hist >>

\* get_logs, lines 167-169: with self.log_lock the buffer is copied
GetLogsBufferRead(t) ==
    /\ ctl[t].pc = "logs_buf"
    /\ Goto(t, [ctl[t] EXCEPT !.res = GetLogsBuffer(log_buffer, ctl[t].n)], "done")
    /\ UNCHANGED << processes, log_buffer, log_file, log_threads, stop_event, procs, pump,
                    fw_input, fw_chains, calls, starts, faults, nextPid, outputs, lim, nextId, hist >>

\* get_logs
GetLogsCall(t) == GetLogsFileRead(t) \/ GetLogsBufferRead(t)

\* with self.log_lock: self.log_buffer.clear()
ClearBuf(t) ==
    /\ ctl[t].pc = "clear_buf"
    /\ log_buffer' = <<>>
    /\ hist' = [hist EXCEPT !.old = {log_buffer[i] : i \in 1..Len(log_buffer)}
                                     \cup {log_file[i] : i \in 1..Len(log_file)},
                             !.clears = @ + 1]
    /\ Goto(t, ctl[t], "clear_file")
    /\ UNCHANGED << processes, log_file, log_threads, stop_event, procs, pump,
                    fw_input, fw_chains, calls, starts, faults, nextPid, outputs, lim, nextId >>

\* open(path, 'w') and the "Logs cleared" line, or the except branch
ClearFile(t) ==
    /\ ctl[t].pc = "clear_file"
    /\ \/ /\ log_file' = <<>>
          /\ AddLog(t, ctl[t], "System", "Logs cleared", "done")
          /\ UNCHANGED faults
       \/ /\ lim.io /\ faults < lim.faults
          /\ faults' = faults + 1
          /\ Goto(t, ctl[t], "done")
          /\ UNCHANGED << log_file, nextId, hist >>
    /\ UNCHANGED << processes, log_buffer, log_threads, stop_event, procs, pump,
                    fw_input, fw_chains, calls, starts, nextPid, outputs, lim >>

(***************************************************************************)
(* The API: main.py calls into the ProcessManager.                         *)
(***************************************************************************)
Call(t) ==
    /\ ctl[t].pc = "idle"
    /\ calls < lim.calls
    /\ calls' = calls + 1
    /\ \/ /\ starts < lim.starts
          /\ starts' = starts + 1
          /\ \E cfg \in Configs :
                /\ nextPid - 1 + Spawns(cfg) <= lim.procs
                /\ Goto(t, EnterStop(Idle, "start", cfg), "stop_set")
       \/ /\ UNCHANGED starts
          /\ \/ /\ "stop" \in lim.ops
                /\ Goto(t, EnterStop(Idle, "stop", Idle.cfg), "stop_set")
             \/ /\ "status" \in lim.ops
                /\ Goto(t, [Idle EXCEPT !.op = "status"], "status_iter")
             \/ /\ "logs" \in lim.ops
                /\ \E n \in LinesArgs :
                      Goto(t, [Idle EXCEPT !.op = "logs", !.n = n], "logs")
             \/ /\ "clear" \in lim.ops
                /\ Goto(t, [Idle EXCEPT !.op = "clear"], "clear_buf")
    /\ UNCHANGED << processes, log_buffer, log_file, log_threads, stop_event, procs,
                    pump, fw_input, fw_chains, faults, nextPid, outputs, lim, nextId, hist >>


\* the call returns (pc = "done") or an exception leaves it (pc = "raised")
Return(t) ==
    /\ ctl[t].pc \in {"done", "raised"}
    /\ Goto(t, Idle, "idle")
    /\ hist' = [hist EXCEPT !.last = ctl[t].op]
    /\ UNCHANGED << processes, log_buffer, log_file, log_threads, stop_event, procs,
                    pump, fw_input, fw_chains, calls, starts, faults, nextPid, outputs, lim, nextId >>

(***************************************************************************)
(* The children: what the operating system and udp2raw do on their own.    *)
(***************************************************************************)
\* the child writes to its stdout or stderr
ChildWrite(p) ==
    /\ procs[p].st = "running"
    /\ outputs < lim.outputs
    /\ outputs' = outputs + 1
    /\ \E chunk \in Chunks : procs' = [procs EXCEPT ![p].pipe = @ \o chunk, ![p].out = @ \o chunk]
    /\ UNCHANGED << processes, log_buffer, log_file, log_threads, stop_event, pump,
                    ctl, fw_input, fw_chains, calls, starts, faults, nextPid, lim, nextId, hist >>

\* exit statuses a child can end with: it dies of SIGTERM (-15), SIGKILL (-9)
\* or SIGINT (-2), sent by the supervisor or from outside, or it exits on its
\* own or in its signal handler with status 0, 1 or 3
ExitStatuses == {-15, -9, -2, 0, 1, 3}

\* the statuses of children that die of the signals the supervisor sends
SignalStatuses == {-15, -9}

\* a child that SIGKILL has reached while running dies of it (-9); every
\* other child, one that exited before the kill() included, ends with any status
ExitCodes(pr) == IF pr.kill THEN {-9} ELSE ExitStatuses

\* the child ends: on a signal of the supervisor or killed from outside; its
\* own cleanup of its firewall artifacts is not guaranteed to run
ChildExit(p) ==
    /\ procs[p].st = "running"
    /\ \E code \in ExitCodes(procs[p]) \cap lim.codes, tidy \in BOOLEAN :
         /\ tidy => procs[p].fw
         /\ procs' = [procs EXCEPT ![p].st = "exited", ![p].code = code, ![p].fw = FALSE]
         /\ fw_input' = IF tidy THEN SelectSeq(fw_input, LAMBDA r : r # p) ELSE fw_input
         /\ fw_chains' = IF tidy THEN fw_chains \ {p} ELSE fw_chains
    /\ UNCHANGED << processes, log_buffer, log_file, log_threads, stop_event, pump,
                    ctl, calls, starts, faults, nextPid, outputs, lim, nextId, hist >>

(***************************************************************************)
(* _log_reader: the output pump of child p                                 *)
(***************************************************************************)
HasNewline(s) == \E i \in 1..Len(s) : s[i] = "\n"
FirstNewline(s) == CHOOSE i \in 1..Len(s) : s[i] = "\n" /\ \A j \in 1..(i - 1) : s[j] # "\n"

\* s.split('\n')
RECURSIVE SplitLines(_)
SplitLines(s) ==
    IF ~HasNewline(s) THEN <<s>>
    ELSE <<SubSeq(s, 1, FirstNewline(s) - 1)>>
            \o SplitLines(SubSeq(s, FirstNewline(s) + 1, Len(s)))

PumpGoto(p, r, pc) ==
    pump' = [pump EXCEPT ![p] =
               IF pc = "done" THEN [NoPump EXCEPT !.pc = "done", !.alias = r.alias]
               ELSE [r EXCEPT !.pc = pc]]

\* the pump goes on (locals r) with self._add_log(alias, message), then to after
PumpAddLog(p, r, message, after) ==
    /\ pump' = [pump EXCEPT ![p] =
                  [r EXCEPT !.rec = LogLine(r.alias, message, <<p, nextId[p]>>),
                            !.after = after, !.pc = "log_buf"]]
    /\ nextId' = [nextId EXCEPT ![p] = @ + 1]
    /\ hist' = [hist EXCEPT !.made = @ \cup {LogLine(r.alias, message, <<p, nextId[p]>>)}]

\* while not self._stop_event.is_set():
PumpCheck(p) ==
    /\ pump[p].pc = "check"
    /\ IF stop_event THEN PumpGoto(p, pump[p], "done")
       ELSE PumpGoto(p, pump[p], "poll")
    /\ UNCHANGED << processes, log_buffer, log_file, log_threads, stop_event, procs,
                    ctl, fw_input, fw_chains, calls, starts, faults, nextPid, outputs, lim, nextId, hist >>

\* if proc.poll() is not None: ...
PumpPoll(p) ==
    /\ pump[p].pc = "poll"
    /\ IF procs[p].st = "exited" THEN PumpGoto(p, pump[p], "drain")
       ELSE PumpGoto(p, pump[p], "read")
    /\ UNCHANGED << processes, log_buffer, log_file, log_threads, stop_event, procs,
                    ctl, fw_input, fw_chains, calls, starts, faults, nextPid, outputs, lim, nextId, hist >>

\* data = os.read(fd, 4096): bytes, end of file, or EAGAIN and a short wait
PumpRead(p) ==
    /\ pump[p].pc = "read"
    /\ IF procs[p].pipe # <<>>
       THEN /\ procs' = [procs EXCEPT ![p].pipe = <<>>]
            /\ PumpGoto(p, [pump[p] EXCEPT !.buffer = @ \o procs[p].pipe], "lines")
       ELSE /\ UNCHANGED procs
            /\ IF procs[p].st = "exited" THEN PumpGoto(p, pump[p], "done")
               ELSE PumpGoto(p, pump[p], "check")
    /\ UNCHANGED << processes, log_buffer, log_file, log_threads, stop_event, ctl,
                    fw_input, fw_chains, calls, starts, faults, nextPid, outputs, lim, nextId, hist >>

\* while '\n' in buffer: line, buffer = buffer.split('\n', 1); ...
PumpLines(p) ==
    /\ pump[p].pc = "lines"
    /\ IF HasNewline(pump[p].buffer)
       THEN LET k == FirstNewline(pump[p].buffer)
                line == Strip(SubSeq(pump[p].buffer, 1, k - 1))
                r == [pump[p] EXCEPT !.buffer = SubSeq(@, k + 1, Len(@))]
            IN IF line # <<>> THEN PumpAddLog(p, r, Join(line), "lines")
               ELSE PumpGoto(p, r, "lines") /\ UNCHANGED << nextId, hist >>
       ELSE PumpGoto(p, pump[p], "check") /\ UNCHANGED << nextId, hist >>
    /\ UNCHANGED << processes, log_buffer, log_file, log_threads, stop_event, procs,
                    ctl, fw_input, fw_chains, calls, starts, faults, nextPid, outputs, lim >>

\* the process has exited: remaining = os.read(fd, 65536), the buffer is split
PumpDrain(p) ==
    /\ pump[p].pc = "drain"
    /\ procs' = [procs EXCEPT ![p].pipe = <<>>]
    /\ LET buffer == pump[p].buffer \o procs[p].pipe IN
       PumpGoto(p, [pump[p] EXCEPT !.buffer = buffer,
                                   !.todo = IF buffer # <<>>
                                            THEN SplitLines(Strip(buffer)) ELSE <<>>],
                "drain_lines")
    /\ UNCHANGED << processes, log_buffer, log_file, log_threads, stop_event, ctl,
                    fw_input, fw_chains, calls, starts, faults, nextPid, outputs, lim, nextId, hist >>

\* for line in buffer.strip().split('\n'): ...; then the exit line, and break
PumpDrainLines(p) ==
    /\ pump[p].pc = "drain_lines"
    /\ IF pump[p].todo # <<>>
       THEN LET line == Strip(Head(pump[p].todo))
                r == [pump[p] EXCEPT !.todo = Tail(@)]
            IN IF line # <<>> THEN PumpAddLog(p, r, Join(line), "drain_lines")
               ELSE PumpGoto(p, r, "drain_lines") /\ UNCHANGED << nextId, hist >>
       ELSE PumpAddLog(p, pump[p],
                       "Process exited with code " \o ToString(procs[p].code), "done")
    /\ UNCHANGED << processes, log_buffer, log_file, log_threads, stop_event, procs,
                    ctl, fw_input, fw_chains, calls, starts, faults, nextPid, outputs, lim >>

PumpLogBuf(p) ==
    /\ pump[p].pc = "log_buf"
    /\ log_buffer' = DequeAppend(log_buffer, pump[p].rec)
    /\ PumpGoto(p, pump[p], "log_file")
    /\ UNCHANGED << processes, log_file, log_threads, stop_event, procs, ctl,
                    fw_input, fw_chains, calls, starts, faults, nextPid, outputs, lim, nextId, hist >>

PumpLogFile(p) ==
    /\ pump[p].pc = "log_file"
    /\ \/ /\ log_file' = FileAppend(log_file, pump[p].rec)
          /\ UNCHANGED faults
       \/ /\ lim.io /\ faults < lim.faults
          /\ faults' = faults + 1
          /\ UNCHANGED log_file
    /\ PumpGoto(p, [pump[p] EXCEPT !.rec = NoLine, !.after = ""], pump[p].after)
    /\ UNCHANGED << processes, log_buffer, log_threads, stop_event, procs, ctl,
                    fw_input, fw_chains, calls, starts, nextPid, outputs, lim, nextId, hist >>

(***************************************************************************)
(* The system.                                                             *)
(***************************************************************************)
\* start_tunnels and stop_all
Halt(t) ==
    \/ Call(t) \/ Return(t)
    \/ StopSet(t) \/ StopKeys(t) \/ StopPoll(t) \/ StopTerm(t) \/ StopWait(t)
    \/ StopKill(t) \/ StopKillWait(t)
    \/ StopClear(t) \/ StopFw(t) \/ StopJoin(t) \/ StopReset(t) \/ StopUnset(t)
    \/ StartApply(t) \/ StartCheck(t) \/ StartLoop(t)
    \/ InstBuild(t) \/ InstPopen(t) \/ InstStore(t) \/ InstThread(t)
    \/ InstAppend(t) \/ InstNext(t)
    \/ LogBuf(t) \/ LogFile(t)

\* start_tunnels, stop_all and get_status
Manage(t) == Halt(t) \/ GetStatus(t)

Control(t) == Manage(t) \/ GetLogsCall(t) \/ ClearBuf(t) \/ ClearFile(t)

\* the steps of the control thread that a boot takes
BootControl(t) ==
    \/ StopSet(t) \/ StopKeys(t) \/ StopPoll(t) \/ StopClear(t)
    \/ FwList(t) \/ FwChains(t) \/ FwChain(t)
    \/ StopJoin(t) \/ StopReset(t) \/ StopUnset(t)
    \/ StartApply(t) \/ StartCheck(t) \/ StartLoop(t)
    \/ InstBuild(t) \/ InstPopen(t) \/ InstStore(t) \/ InstThread(t)
    \/ InstAppend(t) \/ InstNext(t)
    \/ LogBuf(t) \/ LogFile(t) \/ Return(t)

\* the boot, then get_logs and clear_logs with a file that can be read: a
\* get_logs of the one control thread never finds it empty
Logging(t) ==
    \/ BootControl(t) \/ Call(t)
    \/ GetLogsFileRead(t) \/ ClearBuf(t) \/ ClearFile(t)

\* a step of the pump of child p
Pump(p) ==
    \/ PumpCheck(p) \/ PumpPoll(p) \/ PumpRead(p) \/ PumpDrain(p)
    \/ PumpDrainLines(p) \/ PumpLogBuf(p) \/ PumpLogFile(p)

\* the supervisor's work without the reading and clearing of the log
Supervise ==
    \/ \E t \in Threads : Manage(t)
    \/ \E p \in Pids : Pump(p)
    \/ \E p \in Pids : ChildExit(p)

\* every call of the API
Lifecycle ==
    \/ \E t \in Threads : Control(t)
    \/ \E p \in Pids : Pump(p)
    \/ \E p \in Pids : ChildExit(p)

\* the children also print
Output == \E p \in Pids : ChildWrite(p) \/ PumpLines(p)

Next == Lifecycle \/ Output

\* the instances of a snapshot that are enabled and well-formed
PlainOn(list) == \A i \in 1..Len(list) : list[i] = [enabled |-> TRUE]
AllOff(list) == \A i \in 1..Len(list) : list[i] = [enabled |-> FALSE]
BootServers == {cfg \in Configs : GlobalEnabled(cfg) /\ PlainOn(cfg.servers)
                                   /\ AllOff(cfg.clients)}
BootAll == {cfg \in Configs : GlobalEnabled(cfg) /\ PlainOn(cfg.servers)
                               /\ PlainOn(cfg.clients)}

(***************************************************************************)
(* Spec: the supervisor's life cycle.  The boot with any snapshot, then    *)
(* stop_all and get_status calls; children that print nothing and die of  *)
(* a signal or exit with status 0 or 3; no command of the environment      *)
(* fails.                                                                  *)
(***************************************************************************)
Init ==
    InitWith([calls |-> MaxCalls, starts |-> 0, procs |-> MaxProcs, faults |-> 0,
              outputs |-> 0, io |-> FALSE, codes |-> {-15, -9, 0, 3},
              ops |-> {"stop", "status"}], Configs)
Spec == Init /\ [][Supervise]_vars

(***************************************************************************)
(* SpecRestart: the boot starts the servers, then start_tunnels is called  *)
(* again with any snapshot whose instances fit into the bound on the child *)
(* processes, or stop_all or get_status is; one command of the environment *)
(* may fail (the binary is missing, Popen or Thread.start raises, an       *)
(* iptables command fails or raises).                                      *)
(***************************************************************************)
InitRestart ==
    InitWith([calls |-> MaxStarts, starts |-> MaxStarts, procs |-> MaxProcs,
              faults |-> MaxFaults, outputs |-> 0, io |-> FALSE,
              codes |-> SignalStatuses, ops |-> {"stop", "status"}], BootServers)
SpecRestart == InitRestart /\ [][Supervise]_vars

(***************************************************************************)
(* SpecOutput: the boot starts every instance, the children live side by   *)
(* side and print, and the log is read or cleared.                         *)
(***************************************************************************)
NextOutput ==
    \/ \E t \in Threads : Logging(t)
    \/ \E p \in Pids : Pump(p)
    \/ \E p \in Pids : ChildExit(p)
    \/ Output

InitOutput ==
    InitWith([calls |-> MaxOutput, starts |-> 0, procs |-> MaxProcs, faults |-> 0,
              outputs |-> MaxOutput, io |-> FALSE, codes |-> SignalStatuses,
              ops |-> {"logs", "clear"}], BootAll)
SpecOutput == InitOutput /\ [][NextOutput]_vars

(***************************************************************************)
(* SpecClear: one server that prints and ends with any exit status, and    *)
(* two calls, so that the log can be cleared and then read.                *)
(***************************************************************************)
InitClear ==
    InitWith([calls |-> MaxCalls, starts |-> 0, procs |-> MaxProcs,
              faults |-> MaxFaults, outputs |-> MaxOutput, io |-> TRUE,
              codes |-> ExitStatuses, ops |-> Operations], BootServers)
SpecClear == InitClear /\ [][Next]_vars

(***************************************************************************)
(* SpecOrder: the boot starts every instance and no API call follows; the  *)
(* children live side by side and write MaxEmit chunks between them.       *)
(***************************************************************************)
NextOrder ==
    \/ \E t \in Threads : BootControl(t)
    \/ \E p \in Pids : Pump(p)
    \/ \E p \in Pids : ChildExit(p)
    \/ Output

InitOrder ==
    InitWith([calls |-> 0, starts |-> 0, procs |-> MaxProcs,
              faults |-> 0, outputs |-> MaxEmit, io |-> FALSE,
              codes |-> SignalStatuses, ops |-> Operations], BootAll)
SpecOrder == InitOrder /\ [][NextOrder]_vars

(***************************************************************************)
(* SpecCmd: one _start_instance up to its Popen, for every instance of     *)
(* CmdConfs in both roles and both global parameter sets.  The call is     *)
(* inside the loops of a start_tunnels whose stop_all found nothing.       *)
(***************************************************************************)
\* a field that is absent, or holds one of vals
Opt(k, vals) == {[x \in {} |-> x]} \cup {k :> v : v \in vals}

\* a fragment of two tokens
TwoTokens == <<"-", "y", " ", "1">>

CmdEndpoints(mode) ==
    IF mode = "server"
    THEN {[x \in {} |-> x],
          [listen_ip |-> "10.0.0.1", listen_port |-> 4096,
           forward_ip |-> "10.0.0.2", forward_port |-> 51821]}
    ELSE {[x \in {} |-> x],
          [local_ip |-> "10.0.0.3", local_port |-> 3334,
           server_ip |-> "10.0.0.1", server_port |-> 4096]}

CmdConfs(mode) ==
    { [enabled |-> TRUE] @@ e @@ a @@ b @@ c @@ d @@ f @@ g @@ h @@ x @@ y :
        e \in CmdEndpoints(mode),
        a \in Opt("source_ip", {"", "10.0.0.9"}),
        b \in Opt("source_port", {0, 4000}),
        c \in Opt("seq_mode", {0, 4}) \cup {"null" :> {"seq_mode"}},
        d \in Opt("lower_level", {"", "eth0#aa"}),
        f \in Opt("dev", {"eth0"}),
        g \in Opt("disable_anti_replay", BOOLEAN),
        h \in Opt("disable_bpf", {TRUE}),
        x \in Opt("auto_iptables", {FALSE}),
        y \in Opt("extra_args", { [kind |-> "list", v |-> <<>>],
                                  [kind |-> "list", v |-> << <<" ">>, TwoTokens >>],
                                  [kind |-> "str", v |-> TwoTokens] }) }

CmdGlobals == { [enabled |-> TRUE],
                [enabled |-> TRUE, wait_lock |-> FALSE, log_level |-> "debug"] }

InitCmd ==
    \E mode \in {"server", "client"}, gconf \in CmdGlobals :
      \E conf \in CmdConfs(mode) :
        LET applying == LogLine("System", "Applying configuration...", <<0, 1>>)
            booted == LogLine("System", "Process Manager initialized", <<0, 0>>)
        IN
        /\ lim = [calls |-> 0, starts |-> 0, procs |-> 0,
                  faults |-> 0, outputs |-> 0, io |-> FALSE,
              codes |-> SignalStatuses, ops |-> Operations]
        /\ processes = <<>>
        /\ log_buffer = <<applying>>
        /\ log_file = <<booted, applying>>
        /\ log_threads = <<>>
        /\ stop_event = FALSE
        /\ procs = [p \in Pids |-> NoProc]
        /\ pump = [p \in Pids |-> NoPump]
        /\ ctl = [t \in Threads |->
                    [Idle EXCEPT !.pc = "inst_build", !.op = "start",
                                 !.cfg = [global |-> gconf,
                                          servers |-> IF mode = "server" THEN <<conf>> ELSE <<>>,
                                          clients |-> IF mode = "client" THEN <<conf>> ELSE <<>>],
                                 !.mode = mode, !.idx = 1, !.ji = 0,
                                 !.cleared = TRUE, !.reconciled = 1, !.joined = TRUE,
                                 !.attempted = {Key(mode, 1)},
                                 !.written = <<applying>>]]
        /\ fw_input = <<0>>
        /\ fw_chains = {}
        /\ calls = 0
        /\ starts = 0
        /\ faults = 0
        /\ nextPid = 1
        /\ outputs = 0
        /\ nextId = [w \in {0} \cup Pids |-> IF w = 0 THEN 2 ELSE 1]
        /\ hist = [made |-> {booted, applying}, old |-> {}, clears |-> 0, last |-> "none"]

SpecCmd == InitCmd /\ [][\E t \in Threads : InstBuild(t) \/ LogBuf(t) \/ LogFile(t)]_vars

(***************************************************************************)
(* SpecLogs: get_logs on its own.  The log holds up to MaxLines records,   *)
(* the file holds them all or is empty, and get_logs(n) is called for      *)
(* every n from 0 to one more than the log can hold; the file may be       *)
(* unreadable.                                                             *)
(***************************************************************************)
LogRecs(k) == [i \in 1..k |-> LogLine("System", "line " \o ToString(i), <<0, i>>)]

InitLogs ==
    \E k \in 0..MaxLines, n \in 0..(MaxLines + 1), empty \in BOOLEAN :
        /\ lim = [calls |-> 0, starts |-> 0, procs |-> 0,
                  faults |-> MaxFaults, outputs |-> 0, io |-> TRUE,
              codes |-> SignalStatuses, ops |-> Operations]
        /\ processes = <<>>
        /\ log_buffer = LogRecs(k)
        /\ log_file = IF empty THEN <<>> ELSE LogRecs(k)
        /\ log_threads = <<>>
        /\ stop_event = FALSE
        /\ procs = [p \in Pids |-> NoProc]
        /\ pump = [p \in Pids |-> NoPump]
        /\ ctl = [t \in Threads |-> [Idle EXCEPT !.pc = "logs", !.op = "logs", !.n = n]]
        /\ fw_input = <<0>>
        /\ fw_chains = {}
        /\ calls = 0
        /\ starts = 0
        /\ faults = 0
        /\ nextPid = 1
        /\ outputs = 0
        /\ nextId = [w \in {0} \cup Pids |-> IF w = 0 THEN k + 1 ELSE 1]
        /\ hist = [made |-> {LogRecs(k)[i] : i \in 1..k}, old |-> {}, clears |-> 0,
                   last |-> "start"]

SpecLogs == InitLogs /\ [][\E t \in Threads : GetLogsCall(t)]_vars

(***************************************************************************)
(* SpecFw: _cleanup_iptables on its own.  The INPUT chain holds up to      *)
(* MaxRules rules, tagged or not, or more tagged rules than the loop of    *)
(* step 1 has iterations; every tagged rule jumps to a chain that exists.  *)
(* One command may fail or raise; nothing else changes the chains.         *)
(***************************************************************************)
\* n rules that jump to the chain of child p
TaggedRules(n, p) == [i \in 1..n |-> p]

InputChains ==
    UNION {[1..n -> {0} \cup Pids] : n \in 0..MaxRules}
      \cup { <<0>> \o TaggedRules(max_iterations, 1) \o <<0>>,
             TaggedRules(max_iterations + 1, 1),
             <<0>> \o TaggedRules(max_iterations + 1, 2) \o <<0, 1>> }

InitFw ==
    \E rules \in InputChains :
        /\ lim = [calls |-> 0, starts |-> 0, procs |-> 0,
                  faults |-> MaxFaults, outputs |-> 0, io |-> FALSE,
              codes |-> SignalStatuses, ops |-> Operations]
        /\ processes = <<>>
        /\ log_buffer = <<>>
        /\ log_file = << LogLine("System", "Process Manager initialized", <<0, 0>>) >>
        /\ log_threads = <<>>
        /\ stop_event = TRUE
        /\ procs = [p \in Pids |-> NoProc]
        /\ pump = [p \in Pids |-> NoPump]
        /\ ctl = [t \in Threads |->
                    [Idle EXCEPT !.pc = "stop_fw", !.op = "stop", !.cleared = TRUE]]
        /\ fw_input = rules
        /\ fw_chains = {rules[i] : i \in 1..Len(rules)} \ {0}
        /\ calls = 0
        /\ starts = 0
        /\ faults = 0
        /\ nextPid = 1
        /\ outputs = 0
        /\ nextId = [w \in {0} \cup Pids |-> 1]
        /\ hist = [made |-> {LogLine("System", "Process Manager initialized", <<0, 0>>)},
                   old |-> {}, clears |-> 0, last |-> "none"]

SpecFw == InitFw /\ [][\E t \in Threads : StopFw(t) \/ LogBuf(t) \/ LogFile(t)]_vars

(***************************************************************************)
(* SpecRing: the log buffer at its capacity.  The manager has logged so    *)
(* much that at most MaxRoom places of the buffer are free; then the boot  *)
(* starts a server that prints, and stop_all, get_status and clear_logs    *)
(* calls follow.                                                           *)
(***************************************************************************)
InitRing ==
    \E k \in (maxlen - MaxRoom)..maxlen, cfg \in BootServers :
        /\ lim = [calls |-> MaxCalls, starts |-> 0, procs |-> MaxProcs,
                  faults |-> 0, outputs |-> MaxOutput, io |-> FALSE,
              codes |-> SignalStatuses, ops |-> {"stop", "status", "clear"}]
        /\ processes = <<>>
        /\ log_buffer = LogRecs(k)
        /\ log_file = << LogLine("System", "Process Manager initialized", <<0, 0>>) >>
                         \o LogRecs(k)
        /\ log_threads = <<>>
        /\ stop_event = FALSE
        /\ procs = [p \in Pids |-> NoProc]
        /\ pump = [p \in Pids |-> NoPump]
        /\ ctl = [t \in Threads |-> EnterStop(Idle, "start", cfg)]
        /\ fw_input = <<0>>
        /\ fw_chains = {}
        /\ calls = 0
        /\ starts = 0
        /\ faults = 0
        /\ nextPid = 1
        /\ outputs = 0
        /\ nextId = [w \in {0} \cup Pids |-> IF w = 0 THEN k + 1 ELSE 1]
        /\ hist = [made |-> {LogLine("System", "Process Manager initialized", <<0, 0>>)}
                              \cup {LogRecs(k)[i] : i \in 1..k},
                   old |-> {}, clears |-> 0, last |-> "none"]

NextRing ==
    \/ \E t \in Threads : Manage(t) \/ ClearBuf(t) \/ ClearFile(t)
    \/ \E p \in Pids : Pump(p)
    \/ \E p \in Pids : ChildExit(p)
    \/ Output

SpecRing == InitRing /\ [][NextRing]_vars

(***************************************************************************)
(* SpecRace: requests served side by side.  The boot finds the service     *)
(* disabled; then two threads of the web server each take requests: a      *)
(* start_tunnels with every instance enabled, stop_all, get_status.  The   *)
(* behaviours are those in which the pump threads do not get to run while  *)
(* the requests are served (their joins time out).                         *)
(***************************************************************************)
BootOff == {cfg \in Configs : ~GlobalEnabled(cfg) /\ AllOff(cfg.servers)
                               /\ AllOff(cfg.clients)}

\* a request arrives once the boot is over and is handled by thread t; of two
\* threads it does not matter which gets which request: "main" gets the
\* requests that start the tunnels, the other thread the rest
CallRace(t) ==
    /\ ctl[t].pc = "idle"
    /\ hist.last # "none"
    /\ calls < lim.calls
    /\ calls' = calls + 1
    /\ \/ /\ t = "main"
          /\ starts < lim.starts
          /\ starts' = starts + 1
          /\ \E cfg \in BootAll :
                /\ nextPid - 1 + Spawns(cfg) <= lim.procs
                /\ Goto(t, EnterStop(Idle, "start", cfg), "stop_set")
       \/ /\ t # "main"
          /\ calls - starts < lim.calls - lim.starts
          /\ UNCHANGED starts
          /\ \/ Goto(t, EnterStop(Idle, "stop", Idle.cfg), "stop_set")
             \/ Goto(t, [Idle EXCEPT !.op = "status"], "status_iter")
    /\ UNCHANGED << processes, log_buffer, log_file, log_threads, stop_event, procs,
                    pump, fw_input, fw_chains, faults, nextPid, outputs, lim, nextId, hist >>

RaceControl(t) ==
    \/ CallRace(t) \/ Return(t)
    \/ StopSet(t) \/ StopKeys(t) \/ StopPoll(t) \/ StopTerm(t) \/ StopWait(t)
    \/ StopKill(t) \/ StopKillWait(t)
    \/ StopClear(t) \/ StopFw(t) \/ StopJoin(t) \/ StopReset(t) \/ StopUnset(t)
    \/ StartApply(t) \/ StartCheck(t) \/ StartLoop(t)
    \/ InstBuild(t) \/ InstPopen(t) \/ InstStore(t) \/ InstThread(t)
    \/ InstAppend(t) \/ InstNext(t)
    \/ GetStatus(t)
    \/ LogBuf(t) \/ LogFile(t)

NextRace ==
    \/ \E t \in RaceThreads : RaceControl(t)
    \/ \E p \in Pids : ChildExit(p)

InitRace ==
    /\ lim = [calls |-> MaxCalls, starts |-> MaxStarts, procs |-> MaxProcs,
              faults |-> 0, outputs |-> 0, io |-> FALSE,
              codes |-> SignalStatuses, ops |-> {"stop", "status"}]
    /\ processes = <<>>
    /\ log_buffer = <<>>
    /\ log_file = << LogLine("System", "Process Manager initialized", <<0, 0>>) >>
    /\ log_threads = <<>>
    /\ stop_event = FALSE
    /\ procs = [p \in Pids |-> NoProc]
    /\ pump = [p \in Pids |-> NoPump]
    /\ \E cfg \in BootOff :
          ctl = [t \in RaceThreads |->
                    IF t = "main" THEN EnterStop(Idle, "start", cfg) ELSE Idle]
    /\ fw_input = <<0>>
    /\ fw_chains = {}
    /\ calls = 0
    /\ starts = 0
    /\ faults = 0
    /\ nextPid = 1
    /\ outputs = 0
    /\ nextId = [w \in {0} \cup Pids |-> 1]
    /\ hist = [made |-> {LogLine("System", "Process Manager initialized", <<0, 0>>)},
               old |-> {}, clears |-> 0, last |-> "none"]

SpecRace == InitRace /\ [][NextRace]_vars

(***************************************************************************)
(* SpecReaders: the log read and cleared by requests served side by side.  *)
(* The boot starts a server that prints; then two threads of the web       *)
(* server take get_logs and clear_logs requests, and the pump runs.        *)
(***************************************************************************)
\* a request for the log arrives once the boot is over, handled by thread t
CallLogs(t) ==
    /\ ctl[t].pc = "idle"
    /\ hist.last # "none"
    /\ calls < lim.calls
    /\ calls' = calls + 1
    /\ \/ /\ "logs" \in lim.ops
          /\ \E n \in LinesArgs : Goto(t, [Idle EXCEPT !.op = "logs", !.n = n], "logs")
       \/ /\ "clear" \in lim.ops
          /\ Goto(t, [Idle EXCEPT !.op = "clear"], "clear_buf")
    /\ UNCHANGED << processes, log_buffer, log_file, log_threads, stop_event, procs, pump,
                    fw_input, fw_chains, starts, faults, nextPid, outputs, lim, nextId, hist >>

NextReaders ==
    \/ \E t \in RaceThreads :
         \/ BootControl(t) \/ CallLogs(t)
         \/ GetLogsCall(t) \/ ClearBuf(t) \/ ClearFile(t)
    \/ \E p \in Pids : Pump(p)
    \/ \E p \in Pids : ChildExit(p)
    \/ Output

InitReaders ==
    /\ lim = [calls |-> MaxCalls, starts |-> 0, procs |-> MaxProcs,
              faults |-> 0, outputs |-> MaxOutput, io |-> FALSE,
              codes |-> SignalStatuses, ops |-> {"logs", "clear"}]
    /\ processes = <<>>
    /\ log_buffer = <<>>
    /\ log_file = << LogLine("System", "Process Manager initialized", <<0, 0>>) >>
    /\ log_threads = <<>>
    /\ stop_event = FALSE
    /\ procs = [p \in Pids |-> NoProc]
    /\ pump = [p \in Pids |-> NoPump]
    /\ \E cfg \in BootServers :
          ctl = [t \in RaceThreads |->
                    IF t = "main" THEN EnterStop(Idle, "start", cfg) ELSE Idle]
    /\ fw_input = <<0>>
    /\ fw_chains = {}
    /\ calls = 0
    /\ starts = 0
    /\ faults = 0
    /\ nextPid = 1
    /\ outputs = 0
    /\ nextId = [w \in {0} \cup Pids |-> 1]
    /\ hist = [made |-> {LogLine("System", "Process Manager initialized", <<0, 0>>)},
               old |-> {}, clears |-> 0, last |-> "none"]

SpecReaders == InitReaders /\ [][NextReaders]_vars

(***************************************************************************)
(* SpecLive: the life cycle with its scheduling.  The boot starts every    *)
(* instance and a stop_all follows.  A thread that can take a step takes   *)
(* one in the end: the control thread inside a call (every wait of it has  *)
(* a timeout) and each pump (its read does not block, its wait is 0.2 s).  *)
(* Nothing makes a child exit, and nothing makes a request arrive.  A      *)
(* child may end at any moment; the status it ends with has no part in     *)
(* what the threads do next, and is -9 here.                               *)
(***************************************************************************)
\* a step of the control thread inside a call
Running(t) == ctl[t].pc # "idle" /\ Halt(t)

\* the boot and a stop_all, the pumps and the children
NextLive ==
    \/ \E t \in Threads : Halt(t)
    \/ \E p \in Pids : Pump(p)
    \/ \E p \in Pids : ChildExit(p)

InitLive ==
    InitWith([calls |-> MaxOutput, starts |-> 0, procs |-> MaxProcs, faults |-> 0,
              outputs |-> 0, io |-> FALSE, codes |-> {-9},
              ops |-> {"stop"}], BootAll)

SpecLive ==
    /\ InitLive /\ [][NextLive]_vars
    /\ \A t \in Threads : WF_vars(Running(t))
    /\ \A p \in Pids : WF_vars(Pump(p))

(***************************************************************************)
(* Properties.                                                             *)
(***************************************************************************)
\* the keys of the instances of a snapshot that start_tunnels is to start
EnabledKeys(cfg) ==
    {Key(mode, i) : mode \in {"server"}, i \in {j \in 1..Len(cfg.servers) : cfg.servers[j].enabled}}
    \cup {Key(mode, i) : mode \in {"client"}, i \in {j \in 1..Len(cfg.clients) : cfg.clients[j].enabled}}

\* the records by which _start_instance reports that an instance did not start
FailureMessages == {"Failed to start: error", "udp2raw binary not found at " \o bin_path}

\* stop_all has ended in the call with locals c: it returned to the API
\* handler or to start_tunnels, or an exception left it
StopAllEnded(c) ==
    \/ c.op = "stop" /\ c.pc \in {"done", "raised"}
    \/ c.op = "start" /\ c.pc = "start_apply"
    \/ c.op = "start" /\ c.pc = "raised" /\ ~c.cleared

\* C2 (as stated): when a stop_all has ended, the process table is empty and
\* no process that was tracked when the call began is alive.  Violated: the
\* wait that follows the kill raises, and stop_all ends with the table
\* untouched and the child running.
C2_StopLeavesNothing ==
    \A t \in Threads :
        StopAllEnded(ctl[t]) =>
            /\ processes = <<>>
            /\ \A p \in ctl[t].tracked : procs[p].st = "exited"

\* C5 (as stated): a stop_all that follows a stop_all, no start in between,
\* finds the table empty, signals no process, reconciles the firewall once
\* and ends with the table empty, no pump threads listed and the stop event
\* clear.  Violated: the first call ended by the exception of the wait after
\* the kill and left its table behind.
C5_StopTwice ==
    \A t \in Threads :
        (ctl[t].op = "stop" /\ hist.last = "stop") =>
            /\ ctl[t].pc \notin {"stop_set", "stop_keys"} => ctl[t].tracked = {}
            /\ ctl[t].signals = <<>>
            /\ ctl[t].pc # "raised"
            /\ ctl[t].pc = "done" =>
                  /\ ctl[t].reconciled = 1
                  /\ processes = <<>> /\ log_threads = <<>> /\ ~stop_event

\* C9 (as stated): when a start_tunnels whose stop_all went through ends,
\* every enabled instance of the snapshot has been attempted and every
\* attempt that spawned nothing has its failure record.  Violated: shlex.split
\* raises on the extra_args of one instance, nothing is logged and the
\* instances after it are never attempted.
C9_OthersAttempted ==
    \A t \in Threads :
        LET c == ctl[t] IN
        (c.op = "start" /\ c.cleared /\ c.pc \in {"done", "raised"}
            /\ c.cfg.global.enabled) =>
            /\ EnabledKeys(c.cfg) \subseteq c.attempted
            /\ Cardinality({i \in 1..Len(c.written) : c.written[i].msg \in FailureMessages})
                  = Cardinality(c.attempted) - Cardinality(c.spawned)

\* C10 (as stated): no start_tunnels and no stop_all ends with an exception
\* reaching its caller.  Violated: TimeoutExpired from the wait after the kill,
\* ValueError from shlex.split.
C10_NothingEscapes ==
    \A t \in Threads : ctl[t].op \in {"start", "stop"} => ctl[t].pc # "raised"

\* C1: whenever a child is spawned, the spawning start_tunnels has its
\* stop_all behind it: the table was reset and holds only children of this
\* call, the firewall reconciliation has run, and every process the stop_all
\* found in the table has exited.  Spawns happen at no other place.
C1_SpawnAfterStop ==
    [][nextPid' # nextPid =>
          \E t \in Threads :
              /\ ctl[t].op = "start" /\ ctl[t].pc = "inst_popen"
              /\ ctl[t].cleared
              /\ ctl[t].reconciled = 1
              /\ \A p \in ctl[t].tracked : procs[p].st = "exited"
              /\ \A i \in 1..Len(processes) : processes[i].pid \in ctl[t].spawned
              /\ \A p \in Pids : procs'[p].st = "running" /\ procs[p].st # "running"
                                    => p \notin ctl[t].tracked]_vars

\* a start_tunnels that found processes in the table has spawned a child
C1_Witness ==
    \E t \in Threads : ctl[t].op = "start" /\ ctl[t].tracked # {} /\ ctl[t].spawned # {}

\* the records _cleanup_iptables appends
IsCleanupRecord(msg) ==
    \/ msg = "iptables cleanup warning: error"
    \/ \E r \in 0..max_iterations, c \in 0..Cardinality(Pids) : msg = CleanupMessage(r, c)

\* C3 (as stated): a start_tunnels with the global flag off ends with an empty
\* table, no spawn, and the "Service is globally disabled" record as the only
\* record it appended.
C3_OnlyTheNotice ==
    \A t \in Threads :
        LET c == ctl[t] IN
        (c.op = "start" /\ c.pc = "done" /\ ~c.cfg.global.enabled) =>
            /\ processes = <<>>
            /\ c.spawned = {}
            /\ Len(c.written) = 1
            /\ c.written[1].msg = "Service is globally disabled"

\* C3 (amended): a start_tunnels with the global flag off attempts and spawns
\* nothing and appends System records only; when it returns the table is
\* empty and its records are, in order, at most one record of the firewall
\* cleanup, "Applying configuration..." and "Service is globally disabled".
C3_NoticeAfterApplying ==
    \A t \in Threads :
        LET c == ctl[t]
            n == Len(c.written)
        IN (c.op = "start" /\ ~c.cfg.global.enabled) =>
            /\ c.spawned = {} /\ c.attempted = {}
            /\ \A i \in 1..n : c.written[i].alias = "System"
            /\ c.pc = "done" =>
                  /\ processes = <<>>
                  /\ n \in {2, 3}
                  /\ c.written[n].msg = "Service is globally disabled"
                  /\ c.written[n - 1].msg = "Applying configuration..."
                  /\ n = 3 => IsCleanupRecord(c.written[1].msg)

\* a disabled snapshot was applied over running tunnels and the firewall
\* cleanup had something to report
C3_Witness ==
    \E t \in Threads :
        /\ ctl[t].op = "start" /\ ctl[t].pc = "done" /\ ~ctl[t].cfg.global.enabled
        /\ ctl[t].tracked # {}
        /\ Len(ctl[t].written) = 3

\* the keys of all the instances of a snapshot
AllKeys(cfg) ==
    {Key("server", i) : i \in 1..Len(cfg.servers)} \cup {Key("client", i) : i \in 1..Len(cfg.clients)}

\* C4: in a start_tunnels, an instance whose enabled flag is false is never
\* handed to _start_instance, and once the table has been reset no entry
\* under its key exists, whatever happens to the other instances.
C4_DisabledNeverStarted ==
    \A t \in Threads :
        LET c == ctl[t] IN
        c.op = "start" =>
            \A key \in AllKeys(c.cfg) \ EnabledKeys(c.cfg) :
                /\ key \notin c.attempted
                /\ c.cleared => ~DictHas(processes, key)

\* a start_tunnels has returned, having spawned one instance and left a
\* disabled one alone
C4_Witness ==
    \E t \in Threads :
        /\ ctl[t].op = "start" /\ ctl[t].pc = "done" /\ ctl[t].spawned # {}
        /\ AllKeys(ctl[t].cfg) \ EnabledKeys(ctl[t].cfg) # {}

\* the call of thread t is in the loop of get_status
InStatus(t) == ctl[t].pc \in {"status_iter", "status_next"}

\* what C8 asks of one step
C8_Step ==
    /\ \A t \in Threads :
          (InStatus(t) /\ ctl'[t] # ctl[t]) =>
              LET res == ctl'[t].res
                  i == Len(res)
              IN /\ ctl'[t].pc \in {"status_next", "done"}
                 /\ i <= Len(processes)
                 /\ ctl'[t].pc = "done" => res = ctl[t].res /\ i = Len(processes)
                 /\ ctl'[t].pc = "status_next" =>
                       /\ res = Append(ctl[t].res, res[i])
                       /\ res[i].id = processes[i].key
                       /\ procs[processes[i].pid].st = "exited" =>
                             ~res[i].running /\ res[i].pid = 0
                       /\ procs[processes[i].pid].st = "running" =>
                             res[i].running /\ res[i].pid = processes[i].pid
                 /\ procs' = procs /\ processes' = processes
    /\ \A p \in Pids : procs[p].st = "exited" => procs'[p].st = "exited"
    /\ (\E i \in 1..Len(processes) : ~DictHas(processes', processes[i].key))
          => \E u \in Threads : ctl[u].pc = "stop_clear"

\* C8: every turn of the loop of get_status is a step that is always possible
\* and waits for nothing; it polls one table entry, and for an entry whose
\* process has exited it reports running false and no pid (0); an exited
\* process stays exited, so an entry reported for a process that had exited
\* before the call is never running; the call ends after one turn per entry,
\* with every entry listed; and a key leaves the table only in the reset of
\* stop_all.
C8_StatusAfterExit ==
    /\ [](\A t \in Threads : InStatus(t) => ENABLED GetStatus(t))
    /\ [](\A t \in Threads :
            (ctl[t].op = "status" /\ ctl[t].pc = "done") =>
                \A i \in 1..Len(ctl[t].res) :
                    ~ctl[t].res[i].running => procs[processes[i].pid].st = "exited")
    /\ [][C8_Step]_vars

\* a status call has reported a tracked process that had exited on its own
C8_Witness ==
    \E t \in Threads :
        /\ ctl[t].op = "status" /\ ctl[t].pc = "done"
        /\ \E i \in 1..Len(ctl[t].res) :
              /\ ~ctl[t].res[i].running
              /\ ~procs[processes[i].pid].term

\* C6 (as stated): a get_logs that follows a clear_logs returns no record the
\* sink (buffer or file) held when that clear_logs began.  Violated: a pump
\* that had put its line into the buffer before the clear writes it to the
\* file after the truncation; and when the truncation fails the old lines of
\* the file stay.
C6_NothingOldReturned ==
    \A t \in Threads :
        (ctl[t].op = "logs" /\ ctl[t].pc = "done" /\ hist.clears > 0) =>
            \A i \in 1..Len(ctl[t].res) : ctl[t].res[i] \notin hist.old

\* record rec is one a writer formed, under the alias of the pump that wrote it
Intact(rec) ==
    /\ rec \in hist.made
    /\ rec.id[1] # 0 => rec.alias = pump[rec.id[1]].alias

NoDuplicate(s) == \A i, j \in 1..Len(s) : s[i].id = s[j].id => i = j

InSeq(s, rec) == \E i \in 1..Len(s) : s[i] = rec

\* a writer holds rec inside _add_log, at one of the positions pcs
Pending(rec, pcs) ==
    \/ \E p \in Pids : pump[p].rec = rec /\ pump[p].pc \in pcs
    \/ \E t \in Threads : ctl[t].rec = rec /\ ctl[t].pc \in pcs

\* C7: with pumps appending side by side, every record in the buffer, in the
\* file and in a get_logs result is a record some writer formed, whole and
\* under the alias of its pump, and occurs once; and as long as no
\* clear_logs has run and no file write has failed, every record formed is
\* in the file and in the buffer, or its writer is about to put it there.
C7_RecordsIntact ==
    /\ \A i \in 1..Len(log_file) : Intact(log_file[i])
    /\ \A i \in 1..Len(log_buffer) : Intact(log_buffer[i])
    /\ NoDuplicate(log_file) /\ NoDuplicate(log_buffer)
    /\ \A t \in Threads :
          (ctl[t].op = "logs" /\ ctl[t].pc = "done") =>
              /\ \A i \in 1..Len(ctl[t].res) : Intact(ctl[t].res[i])
              /\ NoDuplicate(ctl[t].res)
    /\ (hist.clears = 0 /\ faults = 0) =>
          \A rec \in hist.made :
              /\ InSeq(log_file, rec) \/ Pending(rec, {"log_buf", "log_file"})
              /\ rec.id # <<0, 0>> => InSeq(log_buffer, rec) \/ Pending(rec, {"log_buf"})

\* get_logs has returned records of two pumps whose appends overlapped: the
\* file has them in the other order than the buffer
C7_Witness ==
    \E t \in Threads :
        /\ ctl[t].op = "logs" /\ ctl[t].pc = "done"
        /\ \E i, j \in 1..Len(ctl[t].res) :
              /\ i < j
              /\ ctl[t].res[i].id[1] # 0 /\ ctl[t].res[j].id[1] # 0
              /\ ctl[t].res[i].id[1] # ctl[t].res[j].id[1]
              /\ \E k, l \in 1..Len(log_buffer) :
                    k > l /\ log_buffer[k] = ctl[t].res[i] /\ log_buffer[l] = ctl[t].res[j]

\* the call with locals c is inside stop_all
InStop(c) ==
    \/ c.pc \in {"stop_set", "stop_keys", "stop_poll", "stop_term", "stop_wait",
                 "stop_kill", "stop_killwait",
                 "stop_clear", "stop_fw", "fw_delete", "fw_chains", "fw_chain", "fw_xchain",
                 "stop_join", "stop_reset", "stop_unset"}
    \/ c.pc \in {"log_buf", "log_file"} /\ c.after = "stop_join"

\* C11: once a firewall command of _cleanup_iptables has failed in a call, the
\* table has been reset; when stop_all is left the pumps have been joined,
\* log_threads lists only pumps of this call and the stop event is clear; the
\* call does not end by an exception unless the tokenizer of extra_args
\* raises; and a start_tunnels that returns has attempted every enabled
\* instance.
C11_FirewallFaultHarmless ==
    \A t \in Threads :
        LET c == ctl[t] IN
        c.fwfault =>
            /\ c.cleared
            /\ \A i \in 1..Len(processes) : processes[i].pid \in c.spawned
            /\ ~InStop(c) =>
                  /\ c.joined /\ ~stop_event
                  /\ \A i \in 1..Len(log_threads) : log_threads[i] \in c.spawned
            /\ c.pc = "raised" =>
                  /\ c.op = "start"
                  /\ ~BuildCmd(c.mode, InstanceList(c.cfg, c.mode)[c.idx],
                               c.cfg.global).ok
            /\ (c.op = "start" /\ c.pc = "done" /\ c.cfg.global.enabled) =>
                  EnabledKeys(c.cfg) \subseteq c.attempted

\* a start_tunnels whose firewall cleanup failed has stopped the old child,
\* spawned a new one and returned
C11_Witness ==
    \E t \in Threads :
        /\ ctl[t].fwfault /\ ctl[t].op = "start" /\ ctl[t].pc = "done"
        /\ ctl[t].tracked # {} /\ ctl[t].spawned # {}

\* the last min(n, Len(s)) elements of s
MostRecent(s, n) == SubSeq(s, (IF Len(s) > n THEN Len(s) - n + 1 ELSE 1), Len(s))

\* C12 (as stated): get_logs(n), n >= 0, returns at most n lines, and they are
\* the n records appended last (all when there are fewer), in append order.
\* The buffer of SpecLogs holds every record appended.  Violated: for n = 0
\* the slice [-0:] is the whole list, from the file and from the buffer.
C12_LastNLines ==
    \A t \in Threads :
        (ctl[t].op = "logs" /\ ctl[t].pc = "done") =>
            /\ Len(ctl[t].res) <= ctl[t].n
            /\ ctl[t].res = MostRecent(log_buffer, ctl[t].n)

\* the call with locals c has built the argument vector of its instance and
\* logged it
AtPopen(c) == c.op = "start" /\ c.pc = "inst_popen"
ConfOf(c) == InstanceList(c.cfg, c.mode)[c.idx]
CmdOf(c) == BuildCmd(c.mode, ConfOf(c), c.cfg.global).cmd
\* the vector without the binary and without the tokens of extra_args
OwnArgs(c) == SubSeq(CmdOf(c), 2, Len(CmdOf(c)) - Len(ExtraTokens(ConfOf(c)).toks))

ValuedFlags ==
    {"-l", "-r", "-k", "--raw-mode", "--cipher-mode", "--auth-mode", "--source-ip",
     "--source-port", "--seq-mode", "--lower-level", "--dev", "--log-level"}
BareFlags == {"-s", "-c", "-a", "--disable-anti-replay", "--disable-bpf", "--wait-lock"}

\* the value that follows flag in args
FlagValue(args, flag) == args[(CHOOSE i \in 1..Len(args) : args[i] = flag) + 1]

\* C13: the arguments built for the binary begin with the mode flag of the
\* role, then -l and the listen address:port, then -r and the forward
\* address:port; every flag that takes a value is followed by its value as a
\* token of its own, and no token is a flag joined to a value by '='.  The
\* vector is the one the "Starting:" record shows.
C13_ModeThenEndpoints ==
    \A t \in Threads :
        LET c == ctl[t] IN
        AtPopen(c) =>
            LET conf == ConfOf(c)
                own == OwnArgs(c)
                server == c.mode = "server"
            IN /\ CmdOf(c)[1] = bin_path
               /\ own[1] = (IF server THEN "-s" ELSE "-c")
               /\ own[2] = "-l"
               /\ own[3] = (IF server
                            THEN Get(conf, "listen_ip", "0.0.0.0") \o ":"
                                    \o ToString(Get(conf, "listen_port", 29900))
                            ELSE Get(conf, "local_ip", "127.0.0.1") \o ":"
                                    \o ToString(Get(conf, "local_port", 3333)))
               /\ own[4] = "-r"
               /\ own[5] = (IF server
                            THEN Get(conf, "forward_ip", "127.0.0.1") \o ":"
                                    \o ToString(Get(conf, "forward_port", 51820))
                            ELSE Get(conf, "server_ip", "127.0.0.1") \o ":"
                                    \o ToString(Get(conf, "server_port", 29900)))
               /\ \A i \in 1..Len(own) :
                     own[i] \in ValuedFlags =>
                        i < Len(own) /\ own[i + 1] \notin ValuedFlags \cup BareFlags
               /\ LET joined == {f \o "=" \o own[k] : f \in ValuedFlags, k \in 1..Len(own)}
                  IN \A i \in 1..Len(own) : own[i] \notin joined
               /\ \E rec \in hist.made : rec.msg = "Starting: " \o JoinSp(CmdOf(c))

\* the vector of a server with the default endpoints has been built
C13_Witness ==
    \E t \in Threads :
        /\ AtPopen(ctl[t]) /\ ctl[t].mode = "server"
        /\ SubSeq(OwnArgs(ctl[t]), 1, 5) = <<"-s", "-l", "0.0.0.0:29900", "-r", "127.0.0.1:51820">>

\* C14: the vector the builder makes for a server holds none of --source-ip,
\* --source-port, --seq-mode, whatever source_ip, source_port and seq_mode are.
C14_NoClientFlagsForServer ==
    \A t \in Threads :
        (AtPopen(ctl[t]) /\ ctl[t].mode = "server") =>
            \A i \in 1..Len(OwnArgs(ctl[t])) :
                OwnArgs(ctl[t])[i] \notin {"--source-ip", "--source-port", "--seq-mode"}

\* the vector of a server whose source_ip, source_port and seq_mode are all
\* set has been built
C14_Witness ==
    \E t \in Threads :
        /\ AtPopen(ctl[t]) /\ ctl[t].mode = "server"
        /\ {"source_ip", "source_port", "seq_mode"} \subseteq DOMAIN ConfOf(ctl[t])
        /\ ConfOf(ctl[t]).source_ip # "" /\ ConfOf(ctl[t]).source_port # 0

\* the optional parameters and their flags, and the value that counts as empty
OptionalFlags ==
    { <<"source_ip", "--source-ip", "">>, <<"source_port", "--source-port", 0>>,
      <<"seq_mode", "--seq-mode", -1>>, <<"lower_level", "--lower-level", "">>,
      <<"dev", "--dev", "">> }

\* C15 (as stated): an optional parameter contributes its flag only when the
\* field is present in the instance and not empty, extra arguments included,
\* and a disable flag is emitted exactly when its field is true.  Violated: a
\* client without seq_mode gets --seq-mode 3.
C15_OnlyWhenPresent ==
    \A t \in Threads :
        LET c == ctl[t] IN
        AtPopen(c) =>
            /\ \A o \in OptionalFlags :
                  HasFlag(OwnArgs(c), o[2]) =>
                      /\ o[1] \in DOMAIN ConfOf(c)
                      /\ ConfOf(c)[o[1]] # o[3]
            /\ ExtraTokens(ConfOf(c)).toks # <<>> => "extra_args" \in DOMAIN ConfOf(c)
            /\ HasFlag(OwnArgs(c), "--disable-anti-replay")
                  <=> Get(ConfOf(c), "disable_anti_replay", FALSE)
            /\ HasFlag(OwnArgs(c), "--disable-bpf") <=> Get(ConfOf(c), "disable_bpf", FALSE)

\* C15 (amended): source_ip and source_port (client only), lower_level and dev
\* contribute their flag and value exactly when the field is present and
\* neither empty nor 0; --seq-mode is emitted for every client whose seq_mode
\* is not null, with the value of the field, or 3 when the field is absent;
\* tokens of extra arguments appear only when extra_args is present and not
\* empty; a disable flag is emitted, bare, exactly when its field is true.
C15_OptionalFlags ==
    \A t \in Threads :
        LET c == ctl[t] IN
        AtPopen(c) =>
            LET conf == ConfOf(c)
                own == OwnArgs(c)
                client == c.mode = "client"
                Filled(k) == k \in DOMAIN conf /\ conf[k] # ""
                FilledPort(k) == k \in DOMAIN conf /\ conf[k] # 0
            IN /\ HasFlag(own, "--source-ip") <=> (client /\ Filled("source_ip"))
               /\ HasFlag(own, "--source-ip") => FlagValue(own, "--source-ip") = conf.source_ip
               /\ HasFlag(own, "--source-port") <=> (client /\ FilledPort("source_port"))
               /\ HasFlag(own, "--source-port") =>
                     FlagValue(own, "--source-port") = ToString(conf.source_port)
               /\ HasFlag(own, "--seq-mode") <=>
                     (client /\ "seq_mode" \notin Get(conf, "null", {}))
               /\ HasFlag(own, "--seq-mode") =>
                     FlagValue(own, "--seq-mode") =
                        (IF "seq_mode" \in DOMAIN conf THEN ToString(conf.seq_mode) ELSE "3")
               /\ HasFlag(own, "--lower-level") <=> Filled("lower_level")
               /\ HasFlag(own, "--lower-level") =>
                     FlagValue(own, "--lower-level") = conf.lower_level
               /\ HasFlag(own, "--dev") <=> Filled("dev")
               /\ HasFlag(own, "--dev") => FlagValue(own, "--dev") = conf.dev
               /\ ExtraTokens(conf).toks # <<>> =>
                     "extra_args" \in DOMAIN conf /\ conf.extra_args.v # <<>>
               /\ HasFlag(own, "--disable-anti-replay")
                     <=> ("disable_anti_replay" \in DOMAIN conf /\ conf.disable_anti_replay)
               /\ HasFlag(own, "--disable-bpf")
                     <=> ("disable_bpf" \in DOMAIN conf /\ conf.disable_bpf)

\* the vector of a client without seq_mode has been built: it holds --seq-mode 3
C15_Witness ==
    \E t \in Threads :
        /\ AtPopen(ctl[t]) /\ ctl[t].mode = "client"
        /\ "seq_mode" \notin DOMAIN ConfOf(ctl[t])
        /\ "seq_mode" \notin Get(ConfOf(ctl[t]), "null", {})
        /\ HasFlag(OwnArgs(ctl[t]), "--seq-mode")
        /\ FlagValue(OwnArgs(ctl[t]), "--seq-mode") = "3"

\* C16 (as stated): _cleanup_iptables runs only after the loop over the
\* tracked processes and the reset of the table, never twice in a call, and
\* once in every stop_all that has ended; so a start_tunnels that has ended
\* or has spawned has run it once.  Violated: a stop_all that ends by the
\* exception of the wait after the kill has not run it at all.
C16_ReconciledOnce ==
    \A t \in Threads :
        LET c == ctl[t] IN
        /\ c.reconciled <= 1
        /\ c.reconciled = 1 => c.cleared /\ c.ki > Len(c.keys)
        /\ c.spawned # {} => c.reconciled = 1
        /\ StopAllEnded(c) => c.reconciled = 1
        /\ (c.op = "start" /\ c.pc \in {"done", "raised"}) => c.reconciled = 1

\* stop_all has returned to its caller in the call with locals c
StopAllReturned(c) ==
    \/ c.op = "stop" /\ c.pc = "done"
    \/ c.op = "start" /\ c.pc = "start_apply"

\* C17 (as stated): when stop_all returns the stop event is clear and no pump
\* started before the call is running.  Violated: join(timeout=2) gives up on
\* a pump that has not ended, and the event is cleared all the same.
C17_PumpsEndedAtReturn ==
    \A t \in Threads :
        StopAllReturned(ctl[t]) =>
            /\ ~stop_event
            /\ \A p \in Pids : pump[p].pc \in {"none", "done"}

\* the records the pump of child p has formed
PumpRecords(p) == {rec \in hist.made : rec.id[1] = p}

\* C18 (as stated): with no stop_all after the boot, once a child has exited
\* and its pump has stopped, the pump has formed exactly one record "Process
\* exited with code <code>" under its alias, and that is its last record.
\* Violated: the child exits between the poll and the read of one round, the
\* read returns end-of-file and the pump breaks out with no record.
C18_ExitRecorded ==
    \A p \in Pids :
        (calls = 0 /\ procs[p].st = "exited" /\ pump[p].pc = "done") =>
            \E rec \in PumpRecords(p) :
                /\ rec.msg = "Process exited with code " \o ToString(procs[p].code)
                /\ rec.alias = pump[p].alias
                /\ \A other \in PumpRecords(p) :
                      other # rec => other.id[2] < rec.id[2] /\ other.msg # rec.msg

\* the non-blank lines of what a child wrote, stripped, in the order written
RECURSIVE NonBlank(_)
NonBlank(segs) ==
    IF segs = <<>> THEN <<>>
    ELSE IF Strip(Head(segs)) = <<>> THEN NonBlank(Tail(segs))
    ELSE <<Join(Strip(Head(segs)))>> \o NonBlank(Tail(segs))
LinesOf(out) == NonBlank(SplitLines(out))

ExitMessages == {"Process exited with code " \o ToString(code) : code \in ExitStatuses}

\* the messages of the records the pump of child p has formed, in the order
\* it formed them, its exit record left out
PumpLinesLogged(p) ==
    SelectSeq([n \in 1..(nextId[p] - 1) |->
                  (CHOOSE rec \in hist.made : rec.id = <<p, n>>).msg],
              LAMBDA m : m \notin ExitMessages)

\* C19 (as stated): once a child has exited and its pump has stopped, the
\* pump has formed one record for every non-blank line the child wrote, the
\* unterminated last line included.  Violated: the pump that stops on
\* end-of-file or on the stop event leaves what is in its buffer and in the
\* pipe behind.
C19_NoOutputLost ==
    \A p \in Pids :
        (procs[p].st = "exited" /\ pump[p].pc = "done") =>
            PumpLinesLogged(p) = LinesOf(procs[p].out)

\* the records of pump p in a sink stand there in the order the pump formed them
PumpOrdered(sink, p) ==
    \A i, j \in 1..Len(sink) :
        (i < j /\ sink[i].id[1] = p /\ sink[j].id[1] = p) => sink[i].id[2] < sink[j].id[2]

\* s is an initial piece of q
IsPrefix(s, q) == Len(s) <= Len(q) /\ s = SubSeq(q, 1, Len(s))

\* C20: for each instance, the records of its pump stand in the buffer and in
\* the file in the order in which the child emitted the lines: the pump forms
\* its line records in emission order (they are an initial piece of the lines
\* the child has written) and both sinks keep the records of one pump in the
\* order it formed them, whatever other pumps and the supervisor append between.
C20_EmissionOrder ==
    \A p \in Pids :
        /\ PumpOrdered(log_buffer, p) /\ PumpOrdered(log_file, p)
        /\ IsPrefix(PumpLinesLogged(p), LinesOf(procs[p].out))
        /\ \A rec \in PumpRecords(p) : rec.alias = pump[p].alias

\* both sinks hold two lines of one child with a record of another writer
\* between them
C20_Witness ==
    \E p \in Pids :
        /\ Len(LinesOf(procs[p].out)) = 2
        /\ \A sink \in {log_buffer, log_file} :
              \E i, j, k \in 1..Len(sink) :
                  /\ i < j /\ j < k
                  /\ sink[i].id = <<p, 1>> /\ sink[k].id = <<p, 2>>
                  /\ sink[i].msg = LinesOf(procs[p].out)[1]
                  /\ sink[k].msg = LinesOf(procs[p].out)[2]
                  /\ sink[j].id[1] # p

\* the step sends a signal on behalf of the call of thread t
Sends(t) == Len(ctl'[t].signals) > Len(ctl[t].signals)
Sent(t) == ctl'[t].signals[Len(ctl'[t].signals)]
\* the child the loop of stop_all is at
AtKey(t) == processes[DictGet(processes, ctl[t].keys[ctl[t].ki])].pid

\* the steps of the loop of stop_all, as thread t takes them: the order of
\* poll, terminate, grace wait and kill, and what each has found
C21_Step(t) ==
    LET c == ctl[t]
        d == ctl'[t]
    IN
    \* a key is passed over only when the poll finds its process exited
    /\ (c.pc = "stop_poll" /\ d.pc = "stop_poll" /\ d # c) =>
          /\ procs[AtKey(t)].st = "exited"
          /\ procs' = procs
    \* the terminate request is next only when the poll finds the process alive
    /\ (c.pc = "stop_poll" /\ d.pc = "stop_term") =>
          /\ procs[AtKey(t)].st = "running"
          /\ AtKey(t) \in c.tracked
          /\ d.pid = AtKey(t)
    \* the terminate request is the first signal of the call to the process
    /\ (c.pc = "stop_term" /\ d # c) =>
          /\ Sends(t) /\ Sent(t) = <<c.pid, "TERM">>
          /\ \A i \in 1..Len(c.signals) : c.signals[i][1] # c.pid
          /\ d.pc = "stop_wait"
          /\ procs'[c.pid].term = (procs[c.pid].term \/ procs[c.pid].st = "running")
    \* the grace wait ends with the process exited, or expires with it alive
    /\ (c.pc = "stop_wait" /\ d.pc = "stop_poll") => procs[c.pid].st = "exited"
    /\ (c.pc = "stop_wait" /\ d.pc = "stop_kill") =>
          /\ procs[c.pid].st = "running"
          /\ procs[c.pid].term
    /\ (c.pc = "stop_wait" /\ d # c) => d.pc \in {"stop_poll", "stop_kill"}
    \* the kill follows the terminate request to the same process
    /\ (c.pc = "stop_kill" /\ d # c) =>
          /\ Sends(t) /\ Sent(t) = <<c.pid, "KILL">>
          /\ c.signals # <<>>
          /\ c.signals[Len(c.signals)] = <<c.pid, "TERM">>
          /\ d.pc = "stop_killwait"
          /\ procs'[c.pid].kill = (procs[c.pid].kill \/ procs[c.pid].st = "running")
    /\ c.pc \notin {"stop_term", "stop_kill"} => ~Sends(t)
    /\ Sends(t) => Sent(t)[1] \in c.tracked
    /\ \A p \in Pids :
          (procs'[p].term # procs[p].term \/ procs'[p].kill # procs[p].kill) =>
              procs[p].st \in {"unborn", "running"}

\* the process a signal is sent to is alive at that moment
C21_LiveStep(t) == Sends(t) => procs[Sent(t)[1]].st = "running"

\* C21 as stated: in stop_all a process that has exited receives no signal, a
\* live process first receives the terminate request, and the kill is sent
\* only to a process still alive after the grace wait, after the terminate
\* request; every signal finds its process alive.  Violated: the process can
\* exit between the poll and terminate(), and between the expired wait and
\* kill(); the request is then issued for a process that has exited.
C21_OnlyTheLiving == [][\A t \in Threads : C21_Step(t) /\ C21_LiveStep(t)]_vars

\* C21, amended: in stop_all a tracked process that poll() finds exited is
\* passed over without a signal; one that poll() finds alive is sent the
\* terminate request first; the kill is sent only when the grace wait has
\* expired with the process alive, right after the terminate request to the
\* same process.  A request takes effect only on a process still running.
C21_Escalation == [][\A t \in Threads : C21_Step(t)]_vars

\* a stop_all that tracked two processes has passed over the one that had
\* exited, has sent the other the terminate request and, the grace wait
\* expired, the kill that ended it
C21_Witness ==
    \E t \in Threads : \E p, q \in ctl[t].tracked :
        /\ p # q
        /\ ctl[t].signals = << <<p, "TERM">>, <<p, "KILL">> >>
        /\ procs[p].kill /\ procs[p].code = -9
        /\ procs[q].st = "exited" /\ ~procs[q].term
        /\ ctl[t].cleared

Min(a, b) == IF a < b THEN a ELSE b

\* the rules carrying the tag
TaggedCount(rules) == Len(SelectSeq(rules, LAMBDA r : r # 0))

\* rules without its k lowest-numbered tagged rules
RECURSIVE DropLowest(_, _)
DropLowest(rules, k) ==
    IF rules = <<>> \/ k = 0 THEN rules
    ELSE IF Head(rules) # 0 THEN DropLowest(Tail(rules), k - 1)
    ELSE <<Head(rules)>> \o DropLowest(Tail(rules), k)

\* the call with locals c is in the loop of step 1 of _cleanup_iptables
InStepOne(c) == c.pc \in {"stop_fw", "fw_delete"}

\* what C23 asks of one step of thread t
C23_StepOne(t) ==
    LET c == ctl[t]
        d == ctl'[t]
    IN /\ fw_input' # fw_input =>
             /\ c.pc = "fw_delete"
             /\ c.rule_num = FirstTagged(fw_input)
             /\ fw_input' = DropLowest(fw_input, 1)
             /\ d.deleted_rules = c.deleted_rules + 1
       /\ SelectSeq(fw_input', LAMBDA r : r = 0) = SelectSeq(fw_input, LAMBDA r : r = 0)
       /\ InStepOne(c) => c.iter < max_iterations /\ c.deleted_rules = c.iter
       /\ (c.pc = "stop_fw" /\ d.pc = "fw_delete") =>
             d.rule_num = FirstTagged(fw_input) /\ d.rule_num # 0
       /\ (InStepOne(c) /\ ~InStepOne(d)) =>
             /\ \/ faults' # faults
                \/ TaggedCount(fw_input') = 0
                \/ d.iter = max_iterations /\ d.deleted_rules = max_iterations
             /\ (faults' = faults
                   /\ TaggedCount(fw_input') + d.deleted_rules <= max_iterations) =>
                   TaggedCount(fw_input') = 0
       /\ (c.pc = "fw_chain" /\ d.pc = "log_buf") =>
             d.rec.msg = CleanupMessage(c.deleted_rules, c.deleted_chains)

\* C23: each iptables -D of step 1 of the Firewall Reconciler removes the
\* tagged INPUT rule with the lowest number and nothing else; the loop has at
\* most 100 turns; it is left before the tagged rules are gone only at a
\* command that fails or at the cap; so when every command succeeds and at
\* most 100 tagged rules exist at the start, no tagged rule is left and every
\* untagged rule is still in place.
C23_LowestFirstCapped == [][\A t \in Threads : C23_StepOne(t)]_vars

\* the loop has run into its cap: 100 rules are reported deleted, one tagged
\* rule is left behind the untagged rules that were in the chain
C23_Witness ==
    \E t \in Threads :
        /\ ctl[t].pc = "log_buf"
        /\ ctl[t].rec.msg = CleanupMessage(max_iterations, 0)
        /\ fw_input = <<0, 2, 0, 1>>

\* the last n elements of s, all of them when it has fewer
Newest(s, n) == IF Len(s) <= n THEN s ELSE SubSeq(s, Len(s) - n + 1, Len(s))

\* what C24 asks of one step
C24_Step ==
    /\ Len(log_buffer') <= maxlen
    /\ log_buffer' # log_buffer =>
          \/ /\ \E t \in Threads : ctl[t].pc = "clear_buf"
             /\ log_buffer' = <<>>
          \/ \E t \in Threads :
                /\ ctl[t].pc = "log_buf"
                /\ log_buffer' = Newest(log_buffer \o <<ctl[t].rec>>, maxlen)
          \/ \E p \in Pids :
                /\ pump[p].pc = "log_buf"
                /\ log_buffer' = Newest(log_buffer \o <<pump[p].rec>>, maxlen)
    /\ \A t \in Threads :
          (ctl[t].pc = "log_buf" /\ ctl'[t].pc # "log_buf") =>
              /\ log_buffer'[Len(log_buffer')] = ctl[t].rec
              /\ Len(log_buffer') = Min(Len(log_buffer) + 1, maxlen)
    /\ \A p \in Pids :
          (pump[p].pc = "log_buf" /\ pump'[p].pc # "log_buf") =>
              /\ log_buffer'[Len(log_buffer')] = pump[p].rec
              /\ Len(log_buffer') = Min(Len(log_buffer) + 1, maxlen)

\* C24: the buffer never holds more than 500 records; a step that appends a
\* record puts it last and, at capacity, evicts exactly the oldest one; a
\* clear empties the buffer; no other step touches it.  So the buffer is at
\* all times the newest min(500, appended since the last clear) records in
\* the order of their arrival.
C24_BoundedRing == [][C24_Step]_vars

\* the buffer is full, its oldest records have been evicted, and the newest
\* record is a line of a child
C24_Witness ==
    /\ Len(log_buffer) = maxlen
    /\ log_buffer[1].id[2] > 2
    /\ log_buffer[maxlen].id[1] # 0

\* C22 (as stated): a get_status that runs on another thread side by side with
\* start_tunnels or stop_all always completes.  Violated: nothing locks the
\* process table, and a key stored by _start_instance while get_status is in
\* its loop ends the loop with RuntimeError.
C22_StatusCompletes ==
    \A t \in DOMAIN ctl : ctl[t].op = "status" => ctl[t].pc # "raised"

\* the process table refers to child p
Tracked(p) == \E i \in 1..Len(processes) : processes[i].pid = p

\* C26 (as stated): every child the supervisor has spawned and that is still
\* alive is referenced by the process table or is about to be stored in it
\* by the _start_instance that spawned it, also when start and stop requests
\* of different threads interleave.  Violated: a stop_all that took its list
\* of keys before another thread's _start_instance stored a process replaces
\* the table and drops that process alive.
C26_LiveTracked ==
    \A p \in Pids :
        procs[p].st = "running" =>
            \/ Tracked(p)
            \/ \E t \in DOMAIN ctl : ctl[t].pc = "inst_store" /\ ctl[t].pid = p

\* the place of record rec in sink
PlaceIn(sink, rec) == CHOOSE i \in 1..Len(sink) : sink[i] = rec

\* C27 (as stated): two records that are in the buffer and in the file stand
\* in the same relative order in both.  Violated: _add_log appends to the
\* buffer under log_lock and writes the file after releasing it, so a writer
\* that was second at the buffer can be first at the file.
C27_SinksAgree ==
    \A i, j \in 1..Len(log_buffer) :
        (i < j /\ InSeq(log_file, log_buffer[i]) /\ InSeq(log_file, log_buffer[j])) =>
            PlaceIn(log_file, log_buffer[i]) < PlaceIn(log_file, log_buffer[j])

\* the pump of child p has been started and has not ended
PumpAlive(p) == pump[p].pc \notin {"none", "done"}

\* C25: a call that is inside stop_all leaves it in the end, whatever the
\* children do on the signals and however slow the pumps are; and a pump
\* stops in the end once the stop signal is raised or its child has exited.
C25_StopAllEnds ==
    /\ \A t \in Threads : InStop(ctl[t]) ~> ~InStop(ctl[t])
    /\ \A p \in Pids :
          (PumpAlive(p) /\ (stop_event \/ procs[p].st = "exited")) ~> ~PumpAlive(p)

\* stop_all has ended by the uncaught timeout of the wait after the kill: a
\* child has ignored both signals, the stop signal has stayed raised, and the
\* pump of that child has stopped
C25_Witness ==
    \E p \in Pids :
        /\ procs[p].st = "running" /\ procs[p].kill
        /\ stop_event
        /\ pump[p].pc = "done"
        /\ \A t \in Threads : ctl[t].pc = "idle"
====
